---- MODULE Spec2Model ----
(***************************************************************************)
(* NexusScan: the schedule/target store (pkg/database/client.go), the      *)
(* result processor (cmd/processor/main.go) and the cadence tick that      *)
(* drives GetPendingScans / UpdateScheduleAfterScan.                       *)
(*                                                                         *)
(* Time is counted in seconds.  An RFC3339 string is modelled as a         *)
(* sequence: <<>> is the empty string, <<t>> the timestamp of second t,    *)
(* <<t, "Z">> that timestamp with a further "Z" appended.                  *)
(***************************************************************************)
EXTENDS Integers, Sequences, FiniteSets, TLC

\* ------------------------------------------------------------- bounds
MaxJumps == 2
MaxSeconds == 1
MaxOps == 2
MaxSchedules == 2
MaxDeliveries == 3
MaxStoreDeliveries == 2
NumScans == 2
NumBatches == 2
MaxLimit == 2
MaxHistory == 11
MaxLen == 5
MaxBatchSize == 3
MaxCalls == 2
MaxSendFailures == 1
MaxPutLen == 2
MaxStoreCalls == 3
MaxScanLen == 3
MaxConcurrency == 2
MaxProcessors == 2
MaxRetryCount == 1
MaxOffset == 3

\* ------------------------------------------------------------- domains
IPs == {"10.0.0.1", "10.0.0.2"}
Ports == {22, 80}
ScheduleTypes == {"hourly", "12hour", "daily", "weekly", "monthly"}
PortSets == {"previous_open"}
ScheduleIDs == 1..MaxSchedules

VARIABLES now, jumps, seconds, ops, ipsTbl, schedulesTbl, openPortsTbl, resultsTbl, usedIDs, pending, lastTick, statusRequests, lastDeleted, deliveries,
          ports, batchSize, requests, calls, schedulerEvents, immediateHandled, tasksQueue, tasksDLQ, resultsQueue, scanErrors,
          enricherRequests, enriched, queried, finalResults,
          putArgs, replicas, lastCall, deleteOutcome, enrichmentTbl, procs,
          scanRequest, portsChan, probing, resultsChan, scanResult, attempts, connected, cancellation,
          lastDispatch, lastHandled, listed

vars == <<now, jumps, seconds, ops, ipsTbl, schedulesTbl, openPortsTbl, resultsTbl, usedIDs, pending, lastTick, statusRequests, lastDeleted, deliveries,
          ports, batchSize, requests, calls, schedulerEvents, immediateHandled, tasksQueue, tasksDLQ, resultsQueue, scanErrors,
          enricherRequests, enriched, queried, finalResults,
          putArgs, replicas, lastCall, deleteOutcome, enrichmentTbl, procs,
          scanRequest, portsChan, probing, resultsChan, scanResult, attempts, connected, cancellation,
          lastDispatch, lastHandled, listed>>

clockVars == <<now, jumps, seconds>>
schedVars == <<schedulesTbl, usedIDs, pending, lastTick, statusRequests>>
resultVars == <<openPortsTbl, resultsTbl, deliveries>>
queueVars == <<ports, batchSize, requests, calls, schedulerEvents, immediateHandled, tasksQueue, tasksDLQ, resultsQueue, scanErrors>>
enricherVars == <<enricherRequests, enriched>>
queryVars == <<queried, finalResults>>
storeVars == <<putArgs, replicas, lastCall, deleteOutcome, enrichmentTbl, procs>>
scannerVars == <<scanRequest, portsChan, probing, resultsChan, scanResult, attempts, connected, cancellation>>
dispatchVars == <<lastDispatch>>
handlerVars == <<lastHandled, listed>>

\* ------------------------------------------------------------- time strings
\* time.Time.Format(time.RFC3339): the second, as a string
FormatRFC3339(t) == <<t>>

\* time.Parse(time.RFC3339, s) of a well-formed timestamp
ParseRFC3339(s) == s[1]

\* s1 <= s2 on strings (DynamoDB compares S attributes bytewise): timestamps of
\* one width compare as their seconds, a proper prefix is smaller
StrLeq(s1, s2) ==
    IF s1 = <<>> THEN TRUE
    ELSE IF s2 = <<>> THEN FALSE
    ELSE IF s1[1] # s2[1] THEN s1[1] < s2[1]
    ELSE Len(s1) <= Len(s2)

\* ------------------------------------------------------------- DynamoDB items
\* A table is a function from the keys present to items; an item is a record
\* of the attributes present.
EmptyTable == << >>

HasAttr(item, a) == a \in DOMAIN item

PutItem(tbl, key, item) == (key :> item) @@ tbl

DeleteItem(tbl, key) == [k \in (DOMAIN tbl) \ {key} |-> tbl[k]]

\* UpdateItem with a SET expression: an upsert, the item is created from its key
\* when it does not exist
UpdateItem(tbl, key, keyItem, upd) ==
    (key :> (upd @@ (IF key \in DOMAIN tbl THEN tbl[key] ELSE keyItem))) @@ tbl

\* ------------------------------------------------------------- schedules
getScheduleInterval(scheduleType) ==
    CASE scheduleType = "hourly" -> 1 * 3600
      [] scheduleType = "12hour" -> 12 * 3600
      [] scheduleType = "daily" -> 24 * 3600
      [] scheduleType = "weekly" -> 7 * 24 * 3600
      [] scheduleType = "monthly" -> 30 * 24 * 3600
      [] OTHER -> 24 * 3600

AddSchedule(tbl, scheduleID, ipAddress, scheduleType, portSet, enabled, t) ==
    PutItem(tbl, scheduleID,
        [ScheduleID |-> scheduleID, IPAddress |-> ipAddress,
         ScheduleType |-> scheduleType, PortSet |-> portSet, Enabled |-> enabled,
         CreatedAt |-> FormatRFC3339(t), UpdatedAt |-> FormatRFC3339(t),
         LastRun |-> <<>>,
         NextRun |-> FormatRFC3339(t + getScheduleInterval(scheduleType))])

DeleteSchedule(tbl, scheduleID) == DeleteItem(tbl, scheduleID)

UpdateScheduleStatus(tbl, scheduleID, enabled, t) ==
    UpdateItem(tbl, scheduleID, [ScheduleID |-> scheduleID],
        [Enabled |-> enabled, UpdatedAt |-> FormatRFC3339(t)])

\* A variant that adds the interval to the stored NextRun
UpdateScheduleAfterScanFromNextRun(tbl, scheduleID, scheduleType, t) ==
    UpdateItem(tbl, scheduleID, [ScheduleID |-> scheduleID],
        [LastRun |-> FormatRFC3339(t),
         NextRun |-> FormatRFC3339(
             (IF scheduleID \in DOMAIN tbl /\ HasAttr(tbl[scheduleID], "NextRun")
              THEN ParseRFC3339(tbl[scheduleID].NextRun) ELSE t)
             + getScheduleInterval(scheduleType)),
         UpdatedAt |-> FormatRFC3339(t)])

UpdateScheduleAfterScan(tbl, scheduleID, scheduleType, t) ==
    UpdateItem(tbl, scheduleID, [ScheduleID |-> scheduleID],
        [LastRun |-> FormatRFC3339(t),
         NextRun |-> FormatRFC3339(t + getScheduleInterval(scheduleType)),
         UpdatedAt |-> FormatRFC3339(t)])

UpdateSchedule(tbl, scheduleID, scheduleType, portSet, enabled, t) ==
    UpdateItem(tbl, scheduleID, [ScheduleID |-> scheduleID],
        [ScheduleType |-> scheduleType, PortSet |-> portSet, Enabled |-> enabled,
         UpdatedAt |-> FormatRFC3339(t),
         NextRun |-> FormatRFC3339(t + getScheduleInterval(scheduleType))])

\* getString / getBool: the attribute, or the zero value when it is missing
getString(item, a) == IF HasAttr(item, a) THEN item[a] ELSE ""
getTimeString(item, a) == IF HasAttr(item, a) THEN item[a] ELSE <<>>
getBool(item, a) == IF HasAttr(item, a) THEN item[a] ELSE FALSE

\* The items of ScheduleTypeIndex under one hash key
ScheduleTypeIndex(tbl, scheduleType) ==
    {id \in DOMAIN tbl : HasAttr(tbl[id], "ScheduleType") /\ tbl[id].ScheduleType = scheduleType}

\* A variant of the filter without the Enabled condition
DueFilterNextRunOnly(item, t) ==
    HasAttr(item, "NextRun") /\ StrLeq(item.NextRun, FormatRFC3339(t))

\* FilterExpression "Enabled = :enabled AND NextRun <= :now"
DueFilter(item, t) ==
    /\ HasAttr(item, "Enabled") /\ item.Enabled = TRUE
    /\ HasAttr(item, "NextRun") /\ StrLeq(item.NextRun, FormatRFC3339(t))

\* The sets of items a Query with Limit = maxIPs may evaluate: the index has no
\* sort key, so any maxIPs items of the partition
EvaluatedSets(tbl, scheduleType, maxIPs) ==
    LET part == ScheduleTypeIndex(tbl, scheduleType)
    IN {e \in SUBSET part : Cardinality(e) = IF Cardinality(part) < maxIPs THEN Cardinality(part) ELSE maxIPs}

\* GetPendingScans over the items the query evaluated: the filter runs after
\* the limit
GetPendingScans(tbl, evaluated, t) ==
    {[ScheduleID |-> getString(tbl[id], "ScheduleID"),
      IPAddress |-> getString(tbl[id], "IPAddress"),
      ScheduleType |-> getString(tbl[id], "ScheduleType"),
      PortSet |-> getString(tbl[id], "PortSet"),
      NextRun |-> getTimeString(tbl[id], "NextRun")] : id \in {i \in evaluated : DueFilter(tbl[i], t)}}

\* ------------------------------------------------------------- IPs
AddIP(tbl, ipAddress, t) ==
    PutItem(tbl, ipAddress, [IPAddress |-> ipAddress, CreatedAt |-> FormatRFC3339(t)])

RECURSIVE Concat(_)
\* The lists of a list, one after the other
Concat(lists) == IF lists = <<>> THEN <<>> ELSE Head(lists) \o Concat(Tail(lists))

\* ------------------------------------------------------------- open ports
\* The elements of a list
Range(list) == {list[i] : i \in DOMAIN list}

\* The lists that hold each element of a set once
Orders(S) == {list \in [1..Cardinality(S) -> S] : Range(list) = S}

\* The list of a set in ascending order
Ascending(S) == CHOOSE list \in Orders(S) : \A i, j \in DOMAIN list : i < j => list[i] < list[j]

GetOpenPorts(tbl, ipAddress) ==
    IF ipAddress \in DOMAIN tbl THEN tbl[ipAddress].OpenPorts ELSE <<>>

\* A variant that keeps only the new ports
MergePortsNewOnly(existingPorts, openPorts) == Range(openPorts)

\* portsMap of StoreOpenPorts: the existing ports and the new ones
MergePorts(existingPorts, openPorts) == Range(existingPorts) \cup Range(openPorts)

\* A variant that goes on with no existing ports
MergedPortsWithoutExisting(tbl, ipAddress, openPorts) == Orders(MergePorts(<<>>, openPorts))

\* The lists StoreOpenPorts may write: the keys of portsMap, in the order the
\* map iteration yields them
MergedPorts(tbl, ipAddress, openPorts) ==
    Orders(MergePorts(GetOpenPorts(tbl, ipAddress), openPorts))

\* (variant) the list is stored only for an IP that has none
StoreOpenPortsIfAbsent(tbl, ipAddress, mergedPorts, t) ==
    IF ipAddress \in DOMAIN tbl THEN tbl
    ELSE PutItem(tbl, ipAddress,
             [IPAddress |-> ipAddress, LastUpdated |-> FormatRFC3339(t), OpenPorts |-> mergedPorts])

StoreOpenPorts(tbl, ipAddress, mergedPorts, t) ==
    PutItem(tbl, ipAddress,
        [IPAddress |-> ipAddress, LastUpdated |-> FormatRFC3339(t), OpenPorts |-> mergedPorts])

\* ------------------------------------------------------------- scan results
ThirtyDays == 30 * 24 * 3600

\* The PutItem of StoreScanResult (ScanDuration is stored as received and left
\* out here)
StoreScanResult(tbl, ipAddress, scanID, openPorts, portsScanned, t) ==
    PutItem(tbl, <<ipAddress, FormatRFC3339(t)>>,
        [IPAddress |-> ipAddress, ScanTimestamp |-> FormatRFC3339(t), ScanId |-> scanID,
         OpenPorts |-> openPorts, PortsScanned |-> portsScanned,
         ExpirationTime |-> t + ThirtyDays])

\* The UpdateItem of StoreScanResult
StoreLastScanned(tbl, ipAddress, t) ==
    UpdateItem(tbl, ipAddress, [IPAddress |-> ipAddress], [LastScanned |-> FormatRFC3339(t)])

StoreFinalScanSummary(tbl, ipAddress, scanID, openPorts, portsScanned, t) ==
    PutItem(tbl, <<ipAddress, Append(FormatRFC3339(t), "Z")>>,
        [IPAddress |-> ipAddress, ScanTimestamp |-> Append(FormatRFC3339(t), "Z"),
         ScanId |-> scanID, PortsScanned |-> portsScanned, IsFinalSummary |-> TRUE,
         ExpirationTime |-> t + ThirtyDays, OpenPorts |-> openPorts])

\* IsFinalSummary of models.ScanResult: false when the attribute is missing
IsFinalSummary(item) == getBool(item, "IsFinalSummary")

\* The keys of the scan results of one IP (KeyConditionExpression "IPAddress = :ip")
ResultKeysOfIP(tbl, ipAddress) == {k \in DOMAIN tbl : k[1] = ipAddress}

\* The schedules of one IP (IPAddressIndex)
IPAddressIndex(tbl, ipAddress) ==
    {id \in DOMAIN tbl : HasAttr(tbl[id], "IPAddress") /\ tbl[id].IPAddress = ipAddress}

DeleteIPSchedules(tbl, ipAddress) ==
    [id \in (DOMAIN tbl) \ IPAddressIndex(tbl, ipAddress) |-> tbl[id]]

\* A variant that leaves the final summaries
DeleteIPResultsKeepSummaries(tbl, ipAddress) ==
    [k \in (DOMAIN tbl) \ {r \in ResultKeysOfIP(tbl, ipAddress) : ~IsFinalSummary(tbl[r])} |-> tbl[k]]

\* The query and the batch deletes of DeleteIP
DeleteIPResults(tbl, ipAddress) ==
    [k \in (DOMAIN tbl) \ ResultKeysOfIP(tbl, ipAddress) |-> tbl[k]]

\* ------------------------------------------------------------- batch results
\* scan-{ip}-{unixSeconds}
ScanID(ipAddress, unixSeconds) == <<"scan", ipAddress, unixSeconds>>

\* A message of the result queue: one batch of a scan, with the ports of the
\* batch that were found open
BatchResult(ip, n, batchID, open) ==
    [IPAddress |-> ip, ScanID |-> ScanID(ip, n), OpenPorts |-> Ascending(open),
     BatchID |-> batchID, TotalBatches |-> NumBatches, PortsScanned |-> Cardinality(Ports)]

\* ------------------------------------------------------------- scheduler: batches
\* The batch size SplitIntoBatches uses when it is given none
DefaultBatchSize == 1000

RECURSIVE SplitFrom(_, _, _)
\* The loop of SplitIntoBatches from index i on: ports[i:end], end clipped to
\* the length of the list, then i += batchSize
SplitFrom(portList, size, i) ==
    IF i < Len(portList)
    THEN LET end == IF i + size > Len(portList) THEN Len(portList) ELSE i + size
         IN <<SubSeq(portList, i + 1, end)>> \o SplitFrom(portList, size, i + size)
    ELSE <<>>

\* (variant) keeps only the batches that are full
SplitIntoBatchesFullOnly(portList, size) ==
    LET used == IF size <= 0 THEN DefaultBatchSize ELSE size
    IN SelectSeq(SplitFrom(portList, used, 0), LAMBDA batch : Len(batch) = used)

SplitIntoBatches(portList, size) ==
    SplitFrom(portList, IF size <= 0 THEN DefaultBatchSize ELSE size, 0)

\* (variant) the batches are numbered from 1
ScanRequestsFromOne(ipAddress, strategy, batchList, scanID) ==
    [i \in 1..Len(batchList) |->
        [IPAddress |-> ipAddress, ScanProfile |-> strategy, PortsToScan |-> batchList[i],
         BatchID |-> i, TotalBatches |-> Len(batchList), ScanID |-> scanID]]

\* The scan tasks ScheduleScan builds from the batches: the i-th batch (from 0)
\* with BatchID i, the number of batches and the scan id. The asset's id and
\* address are the IP address; ScanProfile is the profile's port strategy.
ScanRequests(ipAddress, strategy, batchList, scanID) ==
    [i \in 1..Len(batchList) |->
        [IPAddress |-> ipAddress, ScanProfile |-> strategy, PortsToScan |-> batchList[i],
         BatchID |-> i - 1, TotalBatches |-> Len(batchList), ScanID |-> scanID]]

\* The highest port number
MaxPort == 65535

\* The ports scanned for an IP that has no open port on record
CommonPorts == <<22, 80, 443, 3389>>

\* The batch size of a scan, and the larger one of a full range scan
ScanBatchSize == 1000
FullRangeBatchSize == 5000

\* (variant) the open ports on record are scanned even if there are none
PortsToScanNoFallback(tbl, ipAddress, strategy) ==
    CASE strategy = "previous_open" -> GetOpenPorts(tbl, ipAddress)
      [] strategy = "full_range" -> [i \in 1..MaxPort |-> i]

\* The ports ScheduleScan scans under a strategy: the open ports on record, or
\* the common ports if there are none; every port for the full range (of a
\* profile without port ranges)
PortsToScan(tbl, ipAddress, strategy) ==
    CASE strategy = "previous_open" ->
            LET openPorts == GetOpenPorts(tbl, ipAddress)
            IN IF Len(openPorts) = 0 THEN CommonPorts ELSE openPorts
      [] strategy = "full_range" -> [i \in 1..MaxPort |-> i]

\* The batch size ScheduleScan takes for a strategy
BatchSizeOf(strategy) ==
    IF strategy = "full_range" THEN FullRangeBatchSize ELSE ScanBatchSize

\* A message of the task queue: its id (the call that sent it and the batch),
\* the scan task and the number of times it was received
TaskMessage(call, request) ==
    [id |-> <<call, request.BatchID>>, body |-> request, receives |-> 0]

\* ------------------------------------------------------------- task queue, worker
\* maxReceiveCount of the task queue's redrive policy
MaxReceiveCount == 3

\* The list without its i-th element
RemoveAt(list, i) == SubSeq(list, 1, i - 1) \o SubSeq(list, i + 1, Len(list))

\* The result the worker publishes for a task whose scan found the ports open
ScanResult(request, open) ==
    [IPAddress |-> request.IPAddress, ScanID |-> request.ScanID, OpenPorts |-> Ascending(open),
     BatchID |-> request.BatchID, TotalBatches |-> request.TotalBatches,
     PortsScanned |-> Len(request.PortsToScan)]

\* ------------------------------------------------------------- enricher trigger
\* (variant) the request is published whatever the final list of open ports
TriggerEnricherAlways(published, ipAddress, scanID, openPorts) ==
    published \cup {[IPAddress |-> ipAddress, ScanID |-> scanID, OpenPorts |-> openPorts]}

\* The processor's enricher trigger after the final summary: a request with the
\* final list of open ports is published if the list is not empty
TriggerEnricher(published, ipAddress, scanID, openPorts) ==
    IF Len(openPorts) > 0
    THEN published \cup {[IPAddress |-> ipAddress, ScanID |-> scanID, OpenPorts |-> openPorts]}
    ELSE published

\* The PutItem of storeEnrichmentResults: the results of httpx for the open
\* ports of a scan, under the IP and the time of the enrichment
storeEnrichmentResults(tbl, ipAddress, scanID, results, t) ==
    PutItem(tbl, <<ipAddress, FormatRFC3339(t)>>,
        [IPAddress |-> ipAddress, ScanID |-> scanID, EnrichedPorts |-> results,
         Timestamp |-> FormatRFC3339(t), ScheduleID |-> "", ExpirationTime |-> t + ThirtyDays])

\* ------------------------------------------------------------- result retrieval
\* The limit GetScanResults uses when it is given none
DefaultLimit == 10

\* attributevalue.UnmarshalListOfMaps into models.ScanResult: a missing
\* attribute leaves the field at its zero value
UnmarshalScanResult(item) ==
    [IPAddress |-> getString(item, "IPAddress"),
     ScanTimestamp |-> getTimeString(item, "ScanTimestamp"),
     ScanID |-> IF HasAttr(item, "ScanId") THEN item.ScanId ELSE <<>>,
     OpenPorts |-> IF HasAttr(item, "OpenPorts") THEN item.OpenPorts ELSE <<>>,
     PortsScanned |-> IF HasAttr(item, "PortsScanned") THEN item.PortsScanned ELSE 0,
     ExpirationTime |-> IF HasAttr(item, "ExpirationTime") THEN item.ExpirationTime ELSE 0,
     IsFinalSummary |-> getBool(item, "IsFinalSummary")]

RECURSIVE NewestFirst(_)
\* The results ordered by ScanTimestamp, the newest first (the results of one IP
\* have different timestamps: the timestamp is the sort key of the table)
NewestFirst(results) ==
    IF results = {} THEN <<>>
    ELSE LET newest == CHOOSE r \in results :
                 \A other \in results : StrLeq(other.ScanTimestamp, r.ScanTimestamp)
         IN <<newest>> \o NewestFirst(results \ {newest})

\* The Query of GetScanResults: the results of the IP, newest first
QueryScanResults(tbl, ipAddress) ==
    NewestFirst({UnmarshalScanResult(tbl[k]) : k \in ResultKeysOfIP(tbl, ipAddress)})

RECURSIVE SumPortsScanned(_)
SumPortsScanned(results) ==
    IF results = <<>> THEN 0 ELSE Head(results).PortsScanned + SumPortsScanned(Tail(results))

\* (variant) the newest result of the scan stands for the scan as it is
ConsolidateBatchesNewestOnly(results) == results[1]

\* The entry of a scan id without final summary, from its results (newest
\* first): the newest result, with the open ports of all the results, without
\* repeats and ascending, and with the sum of the ports scanned
ConsolidateBatches(results) ==
    LET latestResult == results[1]
        uniquePorts == UNION {Range(results[i].OpenPorts) : i \in DOMAIN results}
    IN [latestResult EXCEPT !.OpenPorts = Ascending(uniquePorts),
                            !.PortsScanned = SumPortsScanned(results)]

\* (variant) final summaries are consolidated like batch results
ConsolidateIgnoringSummaries(results) == ConsolidateBatches(results)

\* The entry of one scan id, from its results (newest first): the first final
\* summary if there is one, else the consolidated batch results
Consolidate(results) ==
    IF \E i \in DOMAIN results : results[i].IsFinalSummary
    THEN results[CHOOSE i \in DOMAIN results :
                     /\ results[i].IsFinalSummary
                     /\ \A j \in 1..(i - 1) : ~results[j].IsFinalSummary]
    ELSE ConsolidateBatches(results)

\* The entries of the scan ids among the results, one for each
ScanEntries(scanResults) ==
    {Consolidate(SelectSeq(scanResults, LAMBDA r : r.ScanID = id)) :
        id \in {scanResults[i].ScanID : i \in DOMAIN scanResults}}

\* The first entries of the list, up to the limit
ApplyLimit(sorted, limit) == IF Len(sorted) > limit THEN SubSeq(sorted, 1, limit) ELSE sorted

\* The list, the last entry first
Reversed(list) == [i \in 1..Len(list) |-> list[Len(list) + 1 - i]]

\* (variant) the entries are cut to the limit from the oldest on
GetScanResultsCutFirst(tbl, ipAddress, limit) ==
    Reversed(ApplyLimit(Reversed(NewestFirst(ScanEntries(QueryScanResults(tbl, ipAddress)))),
                        IF limit <= 0 THEN DefaultLimit ELSE limit))

\* GetScanResults: the results of the IP are grouped by scan id, each group
\* gives one entry, the entries are ordered newest first and cut to the limit
GetScanResults(tbl, ipAddress, limit) ==
    ApplyLimit(NewestFirst(ScanEntries(QueryScanResults(tbl, ipAddress))),
               IF limit <= 0 THEN DefaultLimit ELSE limit)

\* ------------------------------------------------------------- clock
\* One second passes
AdvanceClock ==
    /\ seconds < MaxSeconds
    /\ now' = now + 1
    /\ seconds' = seconds + 1
    /\ UNCHANGED jumps
    /\ UNCHANGED <<ops, ipsTbl, lastDeleted, schedVars, resultVars, queueVars, enricherVars, queryVars, storeVars, scannerVars, dispatchVars, handlerVars>>

\* Time passes until the NextRun of some schedule. A tick that is under way ends
\* first: the scheduler function times out after 300 seconds.
AdvanceToNextRun ==
    /\ jumps < MaxJumps
    /\ pending = {}
    /\ jumps' = jumps + 1
    /\ UNCHANGED seconds
    /\ \E id \in DOMAIN schedulesTbl :
          /\ HasAttr(schedulesTbl[id], "NextRun")
          /\ now < ParseRFC3339(schedulesTbl[id].NextRun)
          /\ now' = ParseRFC3339(schedulesTbl[id].NextRun)
    /\ UNCHANGED <<ops, ipsTbl, lastDeleted, schedVars, resultVars, queueVars, enricherVars, queryVars, storeVars, scannerVars, dispatchVars, handlerVars>>

\* The rate(...) rule of template.yaml: time passes until the next tick of the
\* cadence that ticked last, one interval after that tick
AdvanceToTick ==
    /\ jumps < MaxJumps
    /\ pending = {}
    /\ jumps' = jumps + 1
    /\ UNCHANGED seconds
    /\ lastTick.scheduleType # ""
    /\ now < lastTick.at + getScheduleInterval(lastTick.scheduleType)
    /\ now' = lastTick.at + getScheduleInterval(lastTick.scheduleType)
    /\ UNCHANGED <<ops, ipsTbl, lastDeleted, schedVars, resultVars, queueVars, enricherVars, queryVars, storeVars, scannerVars, dispatchVars, handlerVars>>

\* ------------------------------------------------------------- API handlers
\* uuid.New(): an id never handed out before
NewUUID == CHOOSE id \in ScheduleIDs \ usedIDs : \A other \in ScheduleIDs \ usedIDs : id <= other

\* addSchedule for a port set of those the handler accepts
addScheduleOf(ips, scheduleTypes, portSets) ==
    /\ usedIDs # ScheduleIDs
    /\ \E ipAddress \in ips, scheduleType \in scheduleTypes, portSet \in portSets, enabled \in BOOLEAN :
          schedulesTbl' = AddSchedule(schedulesTbl, NewUUID, ipAddress, scheduleType, portSet, enabled, now)
    /\ usedIDs' = usedIDs \cup {NewUUID}
    /\ lastDeleted' = ""
    /\ UNCHANGED <<clockVars, statusRequests, ops, ipsTbl, pending, lastTick, resultVars, queueVars, enricherVars, queryVars, storeVars, scannerVars, dispatchVars, handlerVars>>

addSchedule(ips, scheduleTypes) == addScheduleOf(ips, scheduleTypes, PortSets)

\* GetScheduleByID answers "schedule not found" for a missing item, and the
\* handler returns before the update
updateScheduleStatus ==
    /\ ops < MaxOps
    /\ \E scheduleID \in ScheduleIDs, enabled \in BOOLEAN :
          /\ scheduleID \in DOMAIN schedulesTbl
          /\ schedulesTbl' = UpdateScheduleStatus(schedulesTbl, scheduleID, enabled, now)
    /\ ops' = ops + 1
    /\ UNCHANGED <<clockVars, statusRequests, ipsTbl, lastDeleted, usedIDs, pending, lastTick, resultVars, queueVars, enricherVars, queryVars, storeVars, scannerVars, dispatchVars, handlerVars>>

updateSchedule ==
    /\ ops < MaxOps
    /\ \E scheduleID \in ScheduleIDs, scheduleType \in ScheduleTypes, portSet \in PortSets, enabled \in BOOLEAN :
          schedulesTbl' = UpdateSchedule(schedulesTbl, scheduleID, scheduleType, portSet, enabled, now)
    /\ ops' = ops + 1
    /\ UNCHANGED <<clockVars, statusRequests, ipsTbl, lastDeleted, usedIDs, pending, lastTick, resultVars, queueVars, enricherVars, queryVars, storeVars, scannerVars, dispatchVars, handlerVars>>

deleteSchedule ==
    /\ ops < MaxOps
    /\ \E scheduleID \in ScheduleIDs :
          schedulesTbl' = DeleteSchedule(schedulesTbl, scheduleID)
    /\ ops' = ops + 1
    /\ UNCHANGED <<clockVars, statusRequests, ipsTbl, lastDeleted, usedIDs, pending, lastTick, resultVars, queueVars, enricherVars, queryVars, storeVars, scannerVars, dispatchVars, handlerVars>>

\* The same handler as its two store calls, between which other handlers may
\* run: GetScheduleByID finds the schedule ...
getScheduleForStatus ==
    /\ ops < MaxOps
    /\ \E scheduleID \in ScheduleIDs, enabled \in BOOLEAN :
          /\ scheduleID \in DOMAIN schedulesTbl
          /\ statusRequests' = statusRequests \cup {<<scheduleID, enabled>>}
    /\ ops' = ops + 1
    /\ UNCHANGED <<clockVars, ipsTbl, lastDeleted, schedulesTbl, usedIDs, pending, lastTick, resultVars, queueVars, enricherVars, queryVars, storeVars, scannerVars, dispatchVars, handlerVars>>

\* ... and UpdateScheduleStatus writes the status
putScheduleStatus ==
    /\ \E request \in statusRequests :
          /\ schedulesTbl' = UpdateScheduleStatus(schedulesTbl, request[1], request[2], now)
          /\ statusRequests' = statusRequests \ {request}
    /\ UNCHANGED <<clockVars, ops, ipsTbl, lastDeleted, usedIDs, pending, lastTick, resultVars, queueVars, enricherVars, queryVars, storeVars, scannerVars, dispatchVars, handlerVars>>

\* ------------------------------------------------------------- cadence tick
\* The listing of the tick handler: GetPendingScans for the tick's cadence and
\* the tick's maxIPs (turn tells a tick from the one before it)
ListPending(turn) ==
    \E scheduleType \in ScheduleTypes, maxIPs \in 1..MaxSchedules :
        \E evaluated \in EvaluatedSets(schedulesTbl, scheduleType, maxIPs) :
          /\ ScheduleTypeIndex(schedulesTbl, scheduleType) # {}
          /\ pending' = GetPendingScans(schedulesTbl, evaluated, now)
          /\ lastTick' = [scheduleType |-> scheduleType, at |-> now, dispatched |-> {},
                           turn |-> turn]

\* The tick handler: list the due schedules of the tick's cadence ...
TickStart ==
    /\ ops < MaxOps
    /\ pending = {}
    /\ ListPending(lastTick.turn)
    /\ ops' = ops + 1
    /\ UNCHANGED <<clockVars, statusRequests, ipsTbl, lastDeleted, schedulesTbl, usedIDs, resultVars, queueVars, enricherVars, queryVars, storeVars, scannerVars, dispatchVars, handlerVars>>

\* The rule of the cadence fires again and again: a tick once the tick before
\* it has ended, however many there were
Tick ==
    /\ pending = {}
    /\ ListPending(1 - lastTick.turn)
    /\ UNCHANGED <<clockVars, statusRequests, ops, ipsTbl, lastDeleted, schedulesTbl, usedIDs, resultVars, queueVars, enricherVars, queryVars, storeVars, scannerVars, dispatchVars, handlerVars>>

\* ... and, for each of them, dispatch the scan and advance the schedule
TickDispatch ==
    /\ \E scan \in pending :
          /\ schedulesTbl' = UpdateScheduleAfterScan(schedulesTbl, scan.ScheduleID, scan.ScheduleType, now)
          /\ pending' = pending \ {scan}
          /\ lastTick' = [lastTick EXCEPT !.dispatched = @ \cup {scan.ScheduleID}]
    /\ UNCHANGED <<clockVars, statusRequests, ops, ipsTbl, lastDeleted, usedIDs, resultVars, queueVars, enricherVars, queryVars, storeVars, scannerVars, dispatchVars, handlerVars>>

\* ------------------------------------------------------------- IP handlers
addIP ==
    /\ ops < MaxOps
    /\ \E ipAddress \in IPs : ipsTbl' = AddIP(ipsTbl, ipAddress, now)
    /\ ops' = ops + 1
    /\ lastDeleted' = ""
    /\ UNCHANGED <<clockVars, schedVars, resultVars, queueVars, enricherVars, queryVars, storeVars, scannerVars, dispatchVars, handlerVars>>

deleteIP ==
    /\ ops < MaxOps
    /\ \E ipAddress \in IPs :
          /\ ipsTbl' = DeleteItem(ipsTbl, ipAddress)
          /\ schedulesTbl' = DeleteIPSchedules(schedulesTbl, ipAddress)
          /\ openPortsTbl' = DeleteItem(openPortsTbl, ipAddress)
          /\ resultsTbl' = DeleteIPResults(resultsTbl, ipAddress)
          /\ lastDeleted' = ipAddress
    /\ ops' = ops + 1
    /\ queried' = <<>>
    /\ finalResults' = <<>>
    /\ UNCHANGED <<clockVars, statusRequests, usedIDs, pending, lastTick, deliveries, queueVars, enricherVars,
                   storeVars, scannerVars, dispatchVars, handlerVars>>

\* ------------------------------------------------------------- result processor
\* One record of the SQS event
HandleSQSEvent(ips, scans, maxDeliveries) ==
    /\ Len(deliveries) < maxDeliveries
    /\ \E ip \in ips, n \in scans, batchID \in 0..(NumBatches - 1), open \in SUBSET Ports :
          LET result == BatchResult(ip, n, batchID, open)
          IN
             /\ deliveries' = Append(deliveries, result)
             /\ ipsTbl' = StoreLastScanned(ipsTbl, result.IPAddress, now)
             /\ \E mergedPorts \in MergedPorts(openPortsTbl, result.IPAddress, result.OpenPorts) :
                   /\ openPortsTbl' =
                         IF Len(result.OpenPorts) > 0
                         THEN StoreOpenPorts(openPortsTbl, result.IPAddress, mergedPorts, now)
                         ELSE openPortsTbl
                   /\ resultsTbl' =
                         LET stored == StoreScanResult(resultsTbl, result.IPAddress, result.ScanID,
                                           result.OpenPorts, result.PortsScanned, now)
                         IN IF result.BatchID = result.TotalBatches - 1
                            THEN StoreFinalScanSummary(stored, result.IPAddress, result.ScanID,
                                     GetOpenPorts(openPortsTbl', result.IPAddress), result.PortsScanned, now)
                            ELSE stored
                   /\ enricherRequests' =
                         IF result.BatchID = result.TotalBatches - 1
                         THEN TriggerEnricher(enricherRequests, result.IPAddress, result.ScanID,
                                  GetOpenPorts(openPortsTbl', result.IPAddress))
                         ELSE enricherRequests
    /\ lastDeleted' = ""
    /\ queried' = <<>>
    /\ finalResults' = <<>>
    /\ UNCHANGED <<clockVars, ops, schedVars, queueVars, enriched, storeVars, scannerVars, dispatchVars, handlerVars>>

\* ------------------------------------------------------------- scheduler: dispatch
\* SplitIntoBatches and the task loop of ScheduleScan, applied to the port list
\* and the batch size at hand
splitIntoBatches ==
    /\ calls = 0
    /\ requests' = ScanRequests("10.0.0.1", "full_range", SplitIntoBatches(ports, batchSize),
                                ScanID("10.0.0.1", now))
    /\ calls' = 1
    /\ UNCHANGED <<clockVars, ops, ipsTbl, lastDeleted, schedVars, resultVars, enricherVars,
                   ports, batchSize, schedulerEvents, immediateHandled, tasksQueue, tasksDLQ, resultsQueue, scanErrors,
                   queryVars, storeVars, scannerVars, dispatchVars, handlerVars>>

\* ScheduleScan for one asset and one profile: the port list of the strategy is
\* split, one task per batch is sent to the task queue; a task whose send fails
\* is skipped
ScheduleScan(ips, strategies) ==
    /\ calls < MaxCalls
    /\ \E ipAddress \in ips, strategy \in strategies :
          \E built \in {ScanRequests(ipAddress, strategy,
                            SplitIntoBatches(PortsToScan(openPortsTbl, ipAddress, strategy),
                                             BatchSizeOf(strategy)),
                            ScanID(ipAddress, now))} :
             /\ requests' = built
             /\ \E failed \in {f \in SUBSET (1..Len(built)) : Cardinality(f) <= MaxSendFailures} :
                   tasksQueue' = tasksQueue \o
                       [i \in 1..(Len(built) - Cardinality(failed)) |->
                           TaskMessage(calls + 1,
                               built[CHOOSE j \in (1..Len(built)) \ failed :
                                         Cardinality((1..j) \ failed) = i])]
    /\ calls' = calls + 1
    /\ UNCHANGED <<clockVars, ops, ipsTbl, lastDeleted, schedVars, resultVars, enricherVars,
                   ports, batchSize, schedulerEvents, immediateHandled, tasksDLQ, resultsQueue, scanErrors,
                   queryVars, storeVars, scannerVars, dispatchVars, handlerVars>>

\* (variant) the schedules of the IP are advanced as after a dispatch
startScanAdvancingSchedules(ips) ==
    /\ calls < MaxCalls
    /\ \E ipAddress \in ips, immediate \in BOOLEAN :
          /\ schedulerEvents' = Append(schedulerEvents,
                 [Immediate |-> immediate, IP |-> ipAddress, PortSet |-> "previous_open",
                  Ports |-> PortsToScan(openPortsTbl, ipAddress, "previous_open")])
          /\ schedulesTbl' = [id \in DOMAIN schedulesTbl |->
                 IF schedulesTbl[id].IPAddress = ipAddress
                 THEN UpdateScheduleAfterScan(schedulesTbl, id, schedulesTbl[id].ScheduleType, now)[id]
                 ELSE schedulesTbl[id]]
    /\ calls' = calls + 1
    /\ UNCHANGED <<clockVars, ops, ipsTbl, lastDeleted, usedIDs, pending, lastTick, statusRequests,
                   resultVars, enricherVars, ports, batchSize, requests, immediateHandled, tasksQueue,
                   tasksDLQ, resultsQueue, scanErrors, queryVars, storeVars, scannerVars, dispatchVars, handlerVars>>

\* startScan of the API for the port set previous_open: the ports are resolved
\* and handed to the scheduler function in an event
startScan(ips) ==
    /\ calls < MaxCalls
    /\ \E ipAddress \in ips, immediate \in BOOLEAN :
          LET openPorts == GetOpenPorts(openPortsTbl, ipAddress)
              portsToScan == IF Len(openPorts) = 0 THEN CommonPorts ELSE openPorts
          IN schedulerEvents' = Append(schedulerEvents,
                 [Immediate |-> immediate, IP |-> ipAddress, PortSet |-> "previous_open",
                  Ports |-> portsToScan])
    /\ calls' = calls + 1
    /\ UNCHANGED <<clockVars, ops, ipsTbl, lastDeleted, schedVars, resultVars, enricherVars,
                   ports, batchSize, requests, immediateHandled, tasksQueue, tasksDLQ, resultsQueue,
                   scanErrors, queryVars, storeVars, scannerVars, dispatchVars, handlerVars>>

\* startBulkScan of the API: the IPs and the port set are handed to the
\* scheduler function in one event
startBulkScan(ips) ==
    /\ calls < MaxCalls
    /\ \E targets \in SUBSET ips, immediate \in BOOLEAN :
          \E ipList \in Orders(targets) :
             schedulerEvents' = Append(schedulerEvents,
                 [Immediate |-> immediate, IPs |-> ipList, PortSet |-> "previous_open"])
    /\ calls' = calls + 1
    /\ UNCHANGED <<clockVars, ops, ipsTbl, lastDeleted, schedVars, resultVars, enricherVars,
                   ports, batchSize, requests, immediateHandled, tasksQueue, tasksDLQ, resultsQueue,
                   scanErrors, queryVars, storeVars, scannerVars, dispatchVars, handlerVars>>

\* The scan tasks of an ad-hoc scan of one IP: the port list is split and
\* there is one task per batch
ImmediateRequests(tbl, ipAddress, portSet, portList, t) ==
    ScanRequests(ipAddress, portSet,
        SplitIntoBatches(IF portList # <<>> THEN portList ELSE PortsToScan(tbl, ipAddress, portSet),
                         BatchSizeOf(portSet)),
        ScanID(ipAddress, t))

\* The scheduler function on an ad-hoc event: the scan of the IP, or of each
\* IP of the list, is put in the task queue. No schedule is read or written.
HandleImmediate ==
    /\ immediateHandled < Len(schedulerEvents)
    /\ LET event == schedulerEvents[immediateHandled + 1]
           targets == IF HasAttr(event, "IP") THEN <<event.IP>> ELSE event.IPs
           portList == IF HasAttr(event, "Ports") THEN event.Ports ELSE <<>>
           tasksOf == [i \in DOMAIN targets |->
                          ImmediateRequests(openPortsTbl, targets[i], event.PortSet, portList, now)]
       IN tasksQueue' = tasksQueue \o
              Concat([i \in DOMAIN targets |->
                  [j \in DOMAIN tasksOf[i] |->
                      [id |-> <<immediateHandled + 1, i, tasksOf[i][j].BatchID>>,
                       body |-> tasksOf[i][j], receives |-> 0]]])
    /\ immediateHandled' = immediateHandled + 1
    /\ UNCHANGED <<clockVars, ops, ipsTbl, lastDeleted, schedVars, resultVars, enricherVars,
                   ports, batchSize, requests, calls, schedulerEvents, tasksDLQ, resultsQueue,
                   scanErrors, queryVars, storeVars, scannerVars, dispatchVars, handlerVars>>

\* ---- the tick handler on a due schedule
\* The port strategy under which the scheduler scans a schedule's port set
StrategyOf(portSet) == IF portSet = "full_65k" THEN "full_range" ELSE portSet

\* (variant) the task loop ends at the first send that fails
SentTasksUntilFailure(call, built, failed) ==
    [i \in 1..Cardinality({j \in 1..Len(built) : (1..j) \cap failed = {}}) |->
        TaskMessage(call, built[i])]

\* The task loop of ScheduleScan: the tasks are sent in the order of their
\* batches; a send that fails is logged and the loop continues with the next
\* batch
SentTasks(call, built, failed) ==
    [i \in 1..(Len(built) - Cardinality(failed)) |->
        TaskMessage(call, built[CHOOSE j \in (1..Len(built)) \ failed :
                                    Cardinality((1..j) \ failed) = i])]

\* What ScheduleScan returns after the task loop, whatever the sends did
ScheduleScanReturns(built, failed) == "nil"

\* The scan of a due schedule is dispatched with ScheduleScan, and once
\* ScheduleScan has returned without error the schedule is advanced
DispatchDue ==
    /\ calls < MaxCalls
    /\ \E scan \in pending :
          \E built \in {ScanRequests(scan.IPAddress, StrategyOf(scan.PortSet),
                            SplitIntoBatches(PortsToScan(openPortsTbl, scan.IPAddress,
                                                         StrategyOf(scan.PortSet)),
                                             BatchSizeOf(StrategyOf(scan.PortSet))),
                            ScanID(scan.IPAddress, now))} :
             \E failed \in {f \in SUBSET (1..Len(built)) : Cardinality(f) <= MaxSendFailures} :
                /\ tasksQueue' = tasksQueue \o SentTasks(calls + 1, built, failed)
                /\ schedulesTbl' =
                       IF ScheduleScanReturns(built, failed) = "nil"
                       THEN UpdateScheduleAfterScan(schedulesTbl, scan.ScheduleID, scan.ScheduleType, now)
                       ELSE schedulesTbl
                /\ lastTick' = [lastTick EXCEPT !.dispatched =
                       IF ScheduleScanReturns(built, failed) = "nil"
                       THEN @ \cup {scan.ScheduleID} ELSE @]
                /\ lastDispatch' = [call |-> calls + 1, ScheduleID |-> scan.ScheduleID,
                                    ScheduleType |-> scan.ScheduleType, at |-> now,
                                    TotalBatches |-> Len(built), failed |-> failed,
                                    returned |-> ScheduleScanReturns(built, failed)]
                /\ pending' = pending \ {scan}
    /\ calls' = calls + 1
    /\ UNCHANGED <<clockVars, ops, ipsTbl, lastDeleted, usedIDs, statusRequests, resultVars,
                   enricherVars, ports, batchSize, requests, schedulerEvents, immediateHandled,
                   tasksDLQ, resultsQueue, scanErrors, queryVars, storeVars, scannerVars, handlerVars>>

\* ------------------------------------------------------------- scan worker
\* The worker's HandleSQSEvent on one message of the task queue (the event
\* source hands it one message at a time). The scan returns a result, returns
\* an error or panics. After a result the worker sends it to the result queue
\* (a failed send is logged); after an error it logs and goes on. In both cases
\* it returns nil and the message is deleted. A panic fails the invocation: the
\* message stays in the queue, received once more.
WorkerHandleSQSEvent ==
    /\ \E i \in DOMAIN tasksQueue :
          LET message == tasksQueue[i]
              handled(failed, returned) ==
                  [handler |-> "worker", id |-> message.id, receive |-> message.receives + 1,
                   failed |-> failed, returned |-> returned]
          IN /\ message.receives < MaxReceiveCount
             /\ \/ \E open \in SUBSET (Range(message.body.PortsToScan) \cap Ports), sent \in BOOLEAN :
                      /\ resultsQueue' = IF sent
                                         THEN Append(resultsQueue, ScanResult(message.body, open))
                                         ELSE resultsQueue
                      /\ tasksQueue' = RemoveAt(tasksQueue, i)
                      /\ scanErrors' = scanErrors \ {message.id}
                      /\ lastHandled' = handled(IF sent THEN {} ELSE {"SendMessage"}, "nil")
                \/ /\ tasksQueue' = RemoveAt(tasksQueue, i)
                   /\ scanErrors' = scanErrors \cup {message.id}
                   /\ lastHandled' = handled({"ScanPorts"}, "nil")
                   /\ UNCHANGED resultsQueue
                \/ /\ tasksQueue' = [tasksQueue EXCEPT ![i].receives = @ + 1]
                   /\ scanErrors' = scanErrors \cup {message.id}
                   /\ lastHandled' = handled({"panic"}, "panic")
                   /\ UNCHANGED resultsQueue
    /\ UNCHANGED <<clockVars, ops, ipsTbl, lastDeleted, schedVars, resultVars, enricherVars,
                   ports, batchSize, requests, calls, schedulerEvents, immediateHandled, tasksDLQ,
                   queryVars, storeVars, scannerVars, dispatchVars, listed>>

\* The redrive policy: a message received maxReceiveCount times without being
\* deleted goes to the dead-letter queue at the next receive
MoveToDLQ ==
    /\ \E i \in DOMAIN tasksQueue :
          /\ tasksQueue[i].receives >= MaxReceiveCount
          /\ tasksDLQ' = Append(tasksDLQ, tasksQueue[i])
          /\ tasksQueue' = RemoveAt(tasksQueue, i)
    /\ UNCHANGED <<clockVars, ops, ipsTbl, lastDeleted, schedVars, resultVars, enricherVars,
                   ports, batchSize, requests, calls, schedulerEvents, immediateHandled, resultsQueue, scanErrors,
                   queryVars, storeVars, scannerVars, dispatchVars, handlerVars>>

\* ---- the processor on a message of the result queue
\* The store calls the processor makes for a batch result
ProcessorCalls(result) ==
    {"StoreScanResult"}
        \cup (IF Len(result.OpenPorts) > 0 THEN {"StoreOpenPorts"} ELSE {})
        \cup (IF result.BatchID = result.TotalBatches - 1 THEN {"StoreFinalScanSummary"} ELSE {})

\* What the processor returns: the error of a store call is logged, the loop
\* goes on and the handler returns nil
ProcessorReturns(failed) == "nil"

\* The processor's HandleSQSEvent on one message of the result queue, with the
\* store calls that fail: a call that fails is logged and the handler goes on
\* with the next one (StoreScanResult fails in its PutItem, logs it and still
\* sets LastScanned). When the handler returns nil the event source deletes the
\* message, after an error the message stays in the queue.
ProcessResultMessage(failures) ==
    /\ \E i \in DOMAIN resultsQueue :
        \E failed \in failures \cap SUBSET ProcessorCalls(resultsQueue[i]) :
          LET result == resultsQueue[i]
              last == result.BatchID = result.TotalBatches - 1
              stored == IF "StoreScanResult" \in failed THEN resultsTbl
                        ELSE StoreScanResult(resultsTbl, result.IPAddress, result.ScanID,
                                 result.OpenPorts, result.PortsScanned, now)
          IN /\ deliveries' = Append(deliveries, result)
             /\ ipsTbl' = StoreLastScanned(ipsTbl, result.IPAddress, now)
             /\ \E mergedPorts \in MergedPorts(openPortsTbl, result.IPAddress, result.OpenPorts) :
                   openPortsTbl' =
                       IF Len(result.OpenPorts) > 0 /\ "StoreOpenPorts" \notin failed
                       THEN StoreOpenPorts(openPortsTbl, result.IPAddress, mergedPorts, now)
                       ELSE openPortsTbl
             /\ resultsTbl' =
                   IF last /\ "StoreFinalScanSummary" \notin failed
                   THEN StoreFinalScanSummary(stored, result.IPAddress, result.ScanID,
                            GetOpenPorts(openPortsTbl', result.IPAddress), result.PortsScanned, now)
                   ELSE stored
             /\ enricherRequests' =
                   IF last /\ "StoreFinalScanSummary" \notin failed
                   THEN TriggerEnricher(enricherRequests, result.IPAddress, result.ScanID,
                            GetOpenPorts(openPortsTbl', result.IPAddress))
                   ELSE enricherRequests
             /\ resultsQueue' = IF ProcessorReturns(failed) = "nil" THEN RemoveAt(resultsQueue, i)
                                ELSE resultsQueue
             /\ lastHandled' = [handler |-> "processor", id |-> <<Len(deliveries) + 1>>, receive |-> 1,
                                failed |-> failed, returned |-> ProcessorReturns(failed)]
    /\ lastDeleted' = ""
    /\ queried' = <<>>
    /\ finalResults' = <<>>
    /\ UNCHANGED <<clockVars, ops, schedVars, ports, batchSize, requests, calls, schedulerEvents,
                   immediateHandled, tasksQueue, tasksDLQ, scanErrors, enriched, storeVars,
                   scannerVars, dispatchVars, listed>>

\* ------------------------------------------------------------- port scanner
\* The concurrency of a scan that asks for none
DefaultConcurrency == 50

\* (variant) one worker more than asked for
PoolSizeOneMore(concurrency) ==
    IF concurrency <= 0 THEN DefaultConcurrency ELSE concurrency + 1

\* The number of workers of the pool
PoolSize(concurrency) ==
    IF concurrency <= 0 THEN DefaultConcurrency ELSE concurrency

RECURSIVE SortByNumber(_)
\* The open ports sorted ascending by port number
SortByNumber(list) ==
    IF list = <<>> THEN <<>>
    ELSE LET least == CHOOSE i \in DOMAIN list : \A j \in DOMAIN list : list[i] <= list[j]
         IN <<list[least]>> \o SortByNumber(RemoveAt(list, least))

\* retryCount as the scanner takes it: none when it is negative
RetryCountOf(retryCount) == IF retryCount < 0 THEN 0 ELSE retryCount

\* (variant) one retry more than asked for
MaxAttemptsOneMore(retryCount) == 2 + RetryCountOf(retryCount)

\* The connect attempts of a probe: the first and up to retryCount retries
MaxAttempts(retryCount) == 1 + RetryCountOf(retryCount)

\* An idle worker of the pool takes the next port from the channel and starts
\* its probe (the ports are told apart by their place in the list)
WorkerReceive ==
    /\ scanResult = <<>>
    /\ portsChan # <<>>
    /\ Cardinality(probing) < PoolSize(scanRequest.Concurrency)
    /\ probing' = probing \cup {Head(portsChan)}
    /\ portsChan' = Tail(portsChan)
    /\ UNCHANGED <<clockVars, ops, ipsTbl, lastDeleted, schedVars, resultVars, queueVars, enricherVars,
                   queryVars, storeVars, dispatchVars, handlerVars, scanRequest, resultsChan, scanResult,
                   attempts, connected, cancellation>>

\* (variant) the attempt is made whether or not the token was cancelled
WorkerProbeUnchecked ==
    /\ \E i \in probing, open \in BOOLEAN :
          /\ attempts' = [attempts EXCEPT ![i] = @ + 1]
          /\ connected' = IF open THEN connected \cup {i} ELSE connected
          /\ resultsChan' = IF open THEN Append(resultsChan, scanRequest.PortsToScan[i])
                                    ELSE resultsChan
          /\ probing' = IF open \/ attempts[i] + 1 >= MaxAttempts(scanRequest.RetryCount)
                        THEN probing \ {i} ELSE probing
    /\ UNCHANGED <<clockVars, ops, ipsTbl, lastDeleted, schedVars, resultVars, queueVars, enricherVars,
                   queryVars, storeVars, dispatchVars, handlerVars, scanRequest, portsChan, scanResult,
                   cancellation>>

\* One connect attempt of a probe, made when the token is not cancelled. A
\* connect that succeeds reports the port as open and ends the probe; after a
\* connect that fails the probe retries, or ends if no retry is left.
WorkerProbe ==
    /\ cancellation = <<>>
    /\ \E i \in probing, open \in BOOLEAN :
          /\ attempts' = [attempts EXCEPT ![i] = @ + 1]
          /\ connected' = IF open THEN connected \cup {i} ELSE connected
          /\ resultsChan' = IF open THEN Append(resultsChan, scanRequest.PortsToScan[i])
                                    ELSE resultsChan
          /\ probing' = IF open \/ attempts[i] + 1 >= MaxAttempts(scanRequest.RetryCount)
                        THEN probing \ {i} ELSE probing
    /\ UNCHANGED <<clockVars, ops, ipsTbl, lastDeleted, schedVars, resultVars, queueVars, enricherVars,
                   queryVars, storeVars, dispatchVars, handlerVars, scanRequest, portsChan, scanResult,
                   cancellation>>

\* The cancellation token fires; the ports reported so far are noted
Cancel ==
    /\ scanRequest # <<>>
    /\ scanResult = <<>>
    /\ cancellation = <<>>
    /\ cancellation' = <<resultsChan>>
    /\ UNCHANGED <<clockVars, ops, ipsTbl, lastDeleted, schedVars, resultVars, queueVars, enricherVars,
                   queryVars, storeVars, dispatchVars, handlerVars, scanRequest, portsChan, probing,
                   resultsChan, scanResult, attempts, connected>>

\* A probe finds the token cancelled before an attempt and exits without a
\* result
ProbeCancelled ==
    /\ cancellation # <<>>
    /\ \E i \in probing : probing' = probing \ {i}
    /\ UNCHANGED <<clockVars, ops, ipsTbl, lastDeleted, schedVars, resultVars, queueVars, enricherVars,
                   queryVars, storeVars, dispatchVars, handlerVars, scanRequest, portsChan, resultsChan,
                   scanResult, attempts, connected, cancellation>>

\* All ports were probed, or the token was cancelled and the probes under way
\* have ended: the open ports are returned, sorted
ScanPortsReturn ==
    /\ scanRequest # <<>>
    /\ scanResult = <<>>
    /\ portsChan = <<>> \/ cancellation # <<>>
    /\ probing = {}
    /\ scanResult' = <<[OpenPorts |-> SortByNumber(resultsChan),
                        PortsScanned |-> Len(scanRequest.PortsToScan)]>>
    /\ UNCHANGED <<clockVars, ops, ipsTbl, lastDeleted, schedVars, resultVars, queueVars, enricherVars,
                   queryVars, storeVars, dispatchVars, handlerVars, scanRequest, portsChan, probing,
                   resultsChan, attempts, connected, cancellation>>

\* ------------------------------------------------------------- enricher
\* handleRequest of the enricher on a published request: a request without
\* open ports is skipped, for any other the results of httpx are stored
handleRequest ==
    /\ \E request \in enricherRequests \ enriched :
          /\ Len(request.OpenPorts) # 0
          /\ enriched' = enriched \cup {request}
          /\ \E answered \in SUBSET Range(request.OpenPorts) :
                enrichmentTbl' = storeEnrichmentResults(enrichmentTbl, request.IPAddress,
                                     request.ScanID, Ascending(answered), now)
    /\ UNCHANGED <<clockVars, ops, ipsTbl, lastDeleted, schedVars, resultVars, queueVars,
                   enricherRequests, queryVars, putArgs, replicas, lastCall, deleteOutcome, procs,
                   scannerVars, dispatchVars, handlerVars>>

\* ------------------------------------------------------------- API: results
\* getScanResults of the API: the scan results of an IP, up to a limit. One
\* retrieval is looked at for each state of the result table.
getScanResults(ips, limits) ==
    /\ queried = <<>>
    /\ \E ipAddress \in ips, limit \in limits :
          /\ queried' = <<ipAddress, limit>>
          /\ finalResults' = GetScanResults(resultsTbl, ipAddress, limit)
    /\ UNCHANGED <<clockVars, ops, ipsTbl, lastDeleted, schedVars, resultVars, queueVars,
                   enricherVars, storeVars, scannerVars, dispatchVars, handlerVars>>

\* ------------------------------------------------------------- store calls
\* The port lists a caller may hand to StoreOpenPorts, repeats included
PutLists == UNION {[1..n -> Ports] : n \in 0..MaxPutLen}

\* The lists StoreOpenPorts may have stored: a set of ports in any order
StoredLists == UNION {Orders(S) : S \in SUBSET Ports}

\* The calls of StoreOpenPorts that are compared, on three copies of one open
\* port table: the list p1 then the list p2, p2 then p1, and both lists at once
PutCalls(path) ==
    CASE path = "p1p2" -> <<putArgs.p1, putArgs.p2>>
      [] path = "p2p1" -> <<putArgs.p2, putArgs.p1>>
      [] path = "union" -> <<putArgs.p1 \o putArgs.p2>>

\* One call of StoreOpenPorts on a copy of the table: the stored list is read,
\* merged with the new ports and written back
StoreOpenPortsCall ==
    /\ \E path \in DOMAIN replicas :
          /\ replicas[path].done < Len(PutCalls(path))
          /\ \E mergedPorts \in MergedPorts(replicas[path].tbl, putArgs.ip,
                                    PutCalls(path)[replicas[path].done + 1]) :
                replicas' = [replicas EXCEPT ![path] =
                    [tbl |-> StoreOpenPorts(replicas[path].tbl, putArgs.ip, mergedPorts, now),
                     done |-> replicas[path].done + 1]]
    /\ UNCHANGED <<clockVars, ops, ipsTbl, lastDeleted, schedVars, resultVars, queueVars, enricherVars,
                   queryVars, putArgs, lastCall, deleteOutcome, enrichmentTbl, procs, scannerVars, dispatchVars, handlerVars>>

\* What no call of the store client changes
callFrame == <<clockVars, lastDeleted, pending, lastTick, statusRequests, deliveries, queueVars,
               enricherVars, queryVars, putArgs, replicas, enrichmentTbl, procs, scannerVars, dispatchVars, handlerVars>>

\* The calls of the store client, each with its arguments on record
AddIPCall(ips) ==
    /\ ops < MaxStoreCalls
    /\ \E ipAddress \in ips :
          /\ ipsTbl' = AddIP(ipsTbl, ipAddress, now)
          /\ lastCall' = <<"AddIP", ipAddress>>
    /\ ops' = ops + 1
    /\ UNCHANGED <<callFrame, schedulesTbl, usedIDs, openPortsTbl, resultsTbl, deleteOutcome>>

AddScheduleCall(ips) ==
    /\ ops < MaxStoreCalls
    /\ usedIDs # ScheduleIDs
    /\ \E ipAddress \in ips, enabled \in BOOLEAN :
          /\ schedulesTbl' = AddSchedule(schedulesTbl, NewUUID, ipAddress, "daily", "previous_open",
                                         enabled, now)
          /\ lastCall' = <<"AddSchedule", ipAddress, "daily", "previous_open", enabled>>
    /\ usedIDs' = usedIDs \cup {NewUUID}
    /\ ops' = ops + 1
    /\ UNCHANGED <<callFrame, ipsTbl, openPortsTbl, resultsTbl, deleteOutcome>>

UpdateScheduleCall ==
    /\ ops < MaxStoreCalls
    /\ \E scheduleID \in ScheduleIDs, enabled \in BOOLEAN :
          /\ schedulesTbl' = UpdateSchedule(schedulesTbl, scheduleID, "hourly", "previous_open",
                                            enabled, now)
          /\ lastCall' = <<"UpdateSchedule", scheduleID, "hourly", "previous_open", enabled>>
    /\ ops' = ops + 1
    /\ UNCHANGED <<callFrame, ipsTbl, usedIDs, openPortsTbl, resultsTbl, deleteOutcome>>

DeleteScheduleCall ==
    /\ ops < MaxStoreCalls
    /\ \E scheduleID \in ScheduleIDs :
          /\ schedulesTbl' = DeleteSchedule(schedulesTbl, scheduleID)
          /\ lastCall' = <<"DeleteSchedule", scheduleID>>
    /\ ops' = ops + 1
    /\ UNCHANGED <<callFrame, ipsTbl, usedIDs, openPortsTbl, resultsTbl, deleteOutcome>>

\* The existing ports StoreOpenPorts goes on with: those GetOpenPorts returned,
\* or none if GetOpenPorts returned an error
ExistingPorts(tbl, ipAddress, readOK) ==
    IF readOK THEN GetOpenPorts(tbl, ipAddress) ELSE <<>>

\* StoreOpenPorts on the open port table; the read of the stored list succeeds
\* or fails
PutOpenPorts(ips, reads) ==
    /\ ops < MaxStoreCalls
    /\ \E ipAddress \in ips, openPorts \in PutLists, readOK \in reads :
          /\ \E mergedPorts \in Orders(MergePorts(ExistingPorts(openPortsTbl, ipAddress, readOK),
                                                  openPorts)) :
                openPortsTbl' = StoreOpenPorts(openPortsTbl, ipAddress, mergedPorts, now)
          /\ lastCall' = <<"StoreOpenPorts", ipAddress, openPorts, readOK>>
    /\ ops' = ops + 1
    /\ UNCHANGED <<callFrame, ipsTbl, schedulesTbl, usedIDs, resultsTbl, deleteOutcome>>

\* StoreScanResult: the result is put under the IP and the time of the call,
\* and the IP's LastScanned is set
StoreScanResultCall(ips) ==
    /\ ops < MaxStoreCalls
    /\ \E ipAddress \in ips, open \in SUBSET Ports :
          /\ resultsTbl' = StoreScanResult(resultsTbl, ipAddress, ScanID(ipAddress, 0),
                                           Ascending(open), Cardinality(Ports), now)
          /\ ipsTbl' = StoreLastScanned(ipsTbl, ipAddress, now)
          /\ lastCall' = <<"StoreScanResult", ipAddress, ScanID(ipAddress, 0), Ascending(open)>>
    /\ ops' = ops + 1
    /\ UNCHANGED <<callFrame, schedulesTbl, usedIDs, openPortsTbl, deleteOutcome>>

\* What DeleteIP deletes after the IP item: the schedules of the IP, its open
\* port item and its scan results
Categories == {"schedules", "openPorts", "results"}

\* The failures DeleteIP may meet: that of the first delete, or any of the later ones
DeleteFailures == {{"ip"}} \cup SUBSET Categories

\* (variant) the deletes stop at the first that fails
DeleteIPAttemptsUntilFailure(failed) ==
    {"schedules"}
    \cup (IF "schedules" \in failed THEN {} ELSE {"openPorts"})
    \cup (IF {"schedules", "openPorts"} \cap failed # {} THEN {} ELSE {"results"})

\* The deletes DeleteIP goes through once the IP item is deleted: an error of
\* one is logged and the next is made
DeleteIPAttempts(failed) == Categories

\* DeleteIP of the store client. An error of the first delete is returned and
\* nothing else is done; a later delete that fails leaves its items.
DeleteIP(ips, failures) ==
    /\ ops < MaxStoreCalls
    /\ \E ipAddress \in ips, failed \in failures :
          /\ lastCall' = <<"DeleteIP", ipAddress>>
          /\ IF "ip" \in failed
             THEN /\ deleteOutcome' = [ip |-> ipAddress, returned |-> "error", failed |-> failed,
                                       attempted |-> {}]
                  /\ UNCHANGED <<ipsTbl, schedulesTbl, openPortsTbl, resultsTbl>>
             ELSE LET attempted == DeleteIPAttempts(failed)
                      deleted == attempted \ failed
                  IN /\ ipsTbl' = DeleteItem(ipsTbl, ipAddress)
                     /\ schedulesTbl' = IF "schedules" \in deleted
                                        THEN DeleteIPSchedules(schedulesTbl, ipAddress)
                                        ELSE schedulesTbl
                     /\ openPortsTbl' = IF "openPorts" \in deleted
                                        THEN DeleteItem(openPortsTbl, ipAddress)
                                        ELSE openPortsTbl
                     /\ resultsTbl' = IF "results" \in deleted
                                      THEN DeleteIPResults(resultsTbl, ipAddress)
                                      ELSE resultsTbl
                     /\ deleteOutcome' = [ip |-> ipAddress, returned |-> "nil", failed |-> failed,
                                          attempted |-> attempted]
    /\ ops' = ops + 1
    /\ UNCHANGED <<callFrame, usedIDs>>

\* ---- StoreOpenPorts of concurrent processor invocations
\* The processor invocations whose StoreOpenPorts has written
Written == {q \in DOMAIN procs : procs[q].pc = "written"}

\* Lambda starts one more invocation of the processor on a batch result with
\* open ports (the function has no reserved concurrency)
ProcessorInvoked(ips) ==
    /\ Len(procs) < MaxProcessors
    /\ \E ipAddress \in ips, openPorts \in PutLists \ {<<>>} :
          procs' = Append(procs, [pc |-> "invoked", IPAddress |-> ipAddress, openPorts |-> openPorts,
                                  existingPorts |-> <<>>, writesBefore |-> 0, stale |-> FALSE])
    /\ UNCHANGED <<clockVars, ops, ipsTbl, lastDeleted, schedVars, resultVars, queueVars, enricherVars,
                   queryVars, putArgs, replicas, lastCall, deleteOutcome, enrichmentTbl, scannerVars, dispatchVars, handlerVars>>

\* (variant) the read yields no existing port
GetExistingPortsNone(p) ==
    /\ p \in DOMAIN procs
    /\ procs[p].pc = "invoked"
    /\ procs' = [procs EXCEPT ![p].pc = "read",
                              ![p].existingPorts = <<>>,
                              ![p].writesBefore = Cardinality(Written)]
    /\ UNCHANGED <<clockVars, ops, ipsTbl, lastDeleted, schedVars, resultVars, queueVars, enricherVars,
                   queryVars, putArgs, replicas, lastCall, deleteOutcome, enrichmentTbl, scannerVars, dispatchVars, handlerVars>>

\* First half of StoreOpenPorts in invocation p: GetOpenPorts reads the stored
\* list into existingPorts
GetExistingPorts(p) ==
    /\ p \in DOMAIN procs
    /\ procs[p].pc = "invoked"
    /\ procs' = [procs EXCEPT ![p].pc = "read",
                              ![p].existingPorts = GetOpenPorts(openPortsTbl, procs[p].IPAddress),
                              ![p].writesBefore = Cardinality(Written)]
    /\ UNCHANGED <<clockVars, ops, ipsTbl, lastDeleted, schedVars, resultVars, queueVars, enricherVars,
                   queryVars, putArgs, replicas, lastCall, deleteOutcome, enrichmentTbl, scannerVars, dispatchVars, handlerVars>>

\* Second half of StoreOpenPorts in invocation p: the list read before is merged
\* with the new ports and put; the write is stale if another invocation wrote
\* since the read
PutMergedPorts(p) ==
    /\ p \in DOMAIN procs
    /\ procs[p].pc = "read"
    /\ \E mergedPorts \in Orders(MergePorts(procs[p].existingPorts, procs[p].openPorts)) :
          openPortsTbl' = StoreOpenPorts(openPortsTbl, procs[p].IPAddress, mergedPorts, now)
    /\ procs' = [procs EXCEPT ![p].pc = "written",
                              ![p].stale = (Cardinality(Written) # procs[p].writesBefore)]
    /\ UNCHANGED <<clockVars, ops, ipsTbl, lastDeleted, schedVars, resultsTbl, deliveries, queueVars,
                   enricherVars, queryVars, putArgs, replicas, lastCall, deleteOutcome, enrichmentTbl,
                   scannerVars, dispatchVars, handlerVars>>

\* ---- listing of the IPs
\* The addresses that are registered in the listing of the IPs
ListedIPs == {"10.0.0.1", "10.0.0.2", "10.0.0.3"}

\* The Limit of the Scan of GetIPs
ScanLimit(limit, offset) == IF offset > 0 THEN limit + offset ELSE limit

\* GetIPs over the items in the order the Scan yields them: the Scan returns
\* up to Limit items, and if there are more than offset of them the first
\* offset are cut off
GetIPs(listing, limit, offset) ==
    LET scanned == IF Len(listing) < ScanLimit(limit, offset) THEN Len(listing)
                   ELSE ScanLimit(limit, offset)
        ips == SubSeq(listing, 1, scanned)
    IN IF offset > 0 /\ Len(ips) > offset
       THEN SubSeq(ips, offset + 1, IF Len(ips) < offset + limit THEN Len(ips) ELSE offset + limit)
       ELSE ips

\* getIPs of the API: limit is positive (10 if none is given), offset is not
\* negative; the Scan yields the items in some order
getIPs ==
    /\ \E limit \in 1..MaxLimit, offset \in 0..MaxOffset, listing \in Orders(DOMAIN ipsTbl) :
          listed' = [limit |-> limit, offset |-> offset, listing |-> listing,
                     ips |-> GetIPs(listing, limit, offset)]
    /\ UNCHANGED <<clockVars, ops, ipsTbl, lastDeleted, schedVars, resultVars, queueVars,
                   enricherVars, queryVars, storeVars, scannerVars, dispatchVars, lastHandled>>

\* ------------------------------------------------------------- specifications
\* The tables are empty, nothing is in flight
InitTables ==
    /\ now = 0
    /\ jumps = 0
    /\ seconds = 0
    /\ ops = 0
    /\ ipsTbl = EmptyTable
    /\ schedulesTbl = EmptyTable
    /\ openPortsTbl = EmptyTable
    /\ resultsTbl = EmptyTable
    /\ usedIDs = {}
    /\ pending = {}
    /\ lastTick = [scheduleType |-> "", at |-> 0, dispatched |-> {}, turn |-> 0]
    /\ deliveries = <<>>
    /\ lastDeleted = ""
    /\ statusRequests = {}
    /\ enricherRequests = {}
    /\ enriched = {}
    /\ queried = <<>>
    /\ finalResults = <<>>

\* No scan was scheduled yet, the queues are empty
InitQueues ==
    /\ ports = <<>>
    /\ batchSize = 0
    /\ requests = <<>>
    /\ calls = 0
    /\ schedulerEvents = <<>>
    /\ immediateHandled = 0
    /\ tasksQueue = <<>>
    /\ tasksDLQ = <<>>
    /\ resultsQueue = <<>>
    /\ scanErrors = {}
    /\ lastDispatch = <<>>
    /\ lastHandled = <<>>
    /\ listed = <<>>

\* No store call was made outside the handlers, no enrichment is on record
InitStore ==
    /\ putArgs = <<>>
    /\ replicas = <<>>
    /\ lastCall = <<>>
    /\ deleteOutcome = <<>>
    /\ enrichmentTbl = EmptyTable
    /\ procs = <<>>

\* No port scan is under way
InitScanner ==
    /\ scanRequest = <<>>
    /\ portsChan = <<>>
    /\ probing = {}
    /\ resultsChan = <<>>
    /\ scanResult = <<>>
    /\ attempts = <<>>
    /\ connected = {}
    /\ cancellation = <<>>

Init == InitTables /\ InitQueues /\ InitStore /\ InitScanner

NextSchedule ==
    \/ AdvanceClock
    \/ AdvanceToNextRun
    \/ AdvanceToTick
    \/ addSchedule({"10.0.0.1"}, ScheduleTypes)
    \/ updateScheduleStatus
    \/ updateSchedule
    \/ deleteSchedule
    \/ TickStart
    \/ TickDispatch

SpecSchedule == Init /\ [][NextSchedule]_vars

NextScheduleHandlers ==
    \/ AdvanceClock
    \/ addSchedule({"10.0.0.1"}, ScheduleTypes)
    \/ getScheduleForStatus
    \/ putScheduleStatus
    \/ updateSchedule
    \/ deleteSchedule

SpecScheduleHandlers == Init /\ [][NextScheduleHandlers]_vars

NextProcessor ==
    \/ AdvanceClock
    \/ HandleSQSEvent(IPs, 0..(NumScans - 1), MaxDeliveries)

SpecProcessor == Init /\ [][NextProcessor]_vars

NextDeleteIP ==
    \/ addIP
    \/ addSchedule(IPs, {"daily"})
    \/ HandleSQSEvent(IPs, {0}, MaxStoreDeliveries)
    \/ deleteIP

SpecDeleteIP == Init /\ [][NextDeleteIP]_vars

\* Every port list up to MaxLen ports
PortLists == UNION {[1..n -> Ports] : n \in 0..MaxLen}

\* Any port list and any batch size, none included, are handed to the scheduler
InitBatches ==
    /\ InitTables
    /\ ports \in PortLists
    /\ batchSize \in -1..MaxBatchSize
    /\ requests = <<>>
    /\ calls = 0
    /\ schedulerEvents = <<>>
    /\ immediateHandled = 0
    /\ tasksQueue = <<>>
    /\ tasksDLQ = <<>>
    /\ resultsQueue = <<>>
    /\ scanErrors = {}
    /\ lastDispatch = <<>>
    /\ lastHandled = <<>>
    /\ listed = <<>>
    /\ InitStore
    /\ InitScanner

NextBatches == splitIntoBatches

SpecBatches == InitBatches /\ [][NextBatches]_vars

NextFullRange ==
    \/ AdvanceClock
    \/ ScheduleScan({"10.0.0.1"}, {"full_range"})

SpecFullRange == Init /\ [][NextFullRange]_vars

NextDispatch ==
    \/ HandleSQSEvent(IPs, {0}, MaxStoreDeliveries)
    \/ ScheduleScan(IPs, {"previous_open"})
    \/ startScan(IPs)

SpecDispatch == Init /\ [][NextDispatch]_vars

NextWorker ==
    \/ ScheduleScan(IPs, {"previous_open"})
    \/ WorkerHandleSQSEvent
    \/ MoveToDLQ

SpecWorker == Init /\ [][NextWorker]_vars

NextEnricher ==
    \/ AdvanceClock
    \/ HandleSQSEvent(IPs, 0..(NumScans - 1), MaxStoreDeliveries)
    \/ handleRequest

SpecEnricher == Init /\ [][NextEnricher]_vars

NextRetrieval ==
    \/ AdvanceClock
    \/ HandleSQSEvent({"10.0.0.1"}, 0..(NumScans - 1), MaxDeliveries)
    \/ getScanResults({"10.0.0.1"}, -1..MaxLimit)

SpecRetrieval == Init /\ [][NextRetrieval]_vars

\* What became of a scan: only its first batch result was processed, or both
\* and with the last its final summary
ScanKinds == {"batch", "final"}

RECURSIVE HistoryResults(_)
\* The result table after the processor has handled the scans of 10.0.0.1, the
\* i-th minted at second 2i, its first batch result processed in that second
\* and its last, if any, in the next; no port was found open
HistoryResults(kinds) ==
    IF kinds = <<>> THEN EmptyTable
    ELSE LET n == Len(kinds)
             scanID == ScanID("10.0.0.1", 2 * n)
             first == StoreScanResult(HistoryResults(SubSeq(kinds, 1, n - 1)), "10.0.0.1",
                          scanID, <<>>, Cardinality(Ports), 2 * n)
         IN IF kinds[n] = "final"
            THEN StoreFinalScanSummary(
                     StoreScanResult(first, "10.0.0.1", scanID, <<>>, Cardinality(Ports), 2 * n + 1),
                     "10.0.0.1", scanID, <<>>, Cardinality(Ports), 2 * n + 1)
            ELSE first

RECURSIVE HistoryDeliveries(_)
\* The batch results processed in that history
HistoryDeliveries(kinds) ==
    IF kinds = <<>> THEN <<>>
    ELSE LET n == Len(kinds)
         IN HistoryDeliveries(SubSeq(kinds, 1, n - 1))
            \o <<BatchResult("10.0.0.1", 2 * n, 0, {})>>
            \o (IF kinds[n] = "final" THEN <<BatchResult("10.0.0.1", 2 * n, 1, {})>> ELSE <<>>)

\* Up to MaxHistory scans of one IP have been processed
InitHistory ==
    /\ \E n \in 0..MaxHistory :
          \E kinds \in [1..n -> ScanKinds] :
             /\ resultsTbl = HistoryResults(kinds)
             /\ deliveries = HistoryDeliveries(kinds)
             /\ now = 2 * n + 1
             /\ ipsTbl = IF n = 0 THEN EmptyTable
                         ELSE StoreLastScanned(EmptyTable, "10.0.0.1",
                                  IF kinds[n] = "final" THEN 2 * n + 1 ELSE 2 * n)
    /\ jumps = 0
    /\ seconds = 0
    /\ ops = 0
    /\ schedulesTbl = EmptyTable
    /\ openPortsTbl = EmptyTable
    /\ usedIDs = {}
    /\ pending = {}
    /\ lastTick = [scheduleType |-> "", at |-> 0, dispatched |-> {}, turn |-> 0]
    /\ lastDeleted = ""
    /\ statusRequests = {}
    /\ enricherRequests = {}
    /\ enriched = {}
    /\ queried = <<>>
    /\ finalResults = <<>>
    /\ InitQueues
    /\ InitStore
    /\ InitScanner

NextHistory == getScanResults({"10.0.0.1"}, -1..MaxLimit)

SpecHistory == InitHistory /\ [][NextHistory]_vars

\* An IP without item or with any stored list, and any two port lists for the
\* calls; the three copies of the table start the same
InitPutUnion ==
    /\ InitTables
    /\ InitQueues
    /\ InitScanner
    /\ lastCall = <<>>
    /\ deleteOutcome = <<>>
    /\ enrichmentTbl = EmptyTable
    /\ procs = <<>>
    /\ \E p1 \in PutLists, p2 \in PutLists, present \in BOOLEAN, start \in StoredLists :
          /\ ~present => start = <<>>
          /\ putArgs = [ip |-> "10.0.0.1", p1 |-> p1, p2 |-> p2, present |-> present, start |-> start]
          /\ replicas = [path \in {"p1p2", "p2p1", "union"} |->
                 [tbl |-> IF present THEN StoreOpenPorts(EmptyTable, "10.0.0.1", start, 0)
                                     ELSE EmptyTable,
                  done |-> 0]]

NextPutUnion == StoreOpenPortsCall

SpecPutUnion == InitPutUnion /\ [][NextPutUnion]_vars

NextRetry ==
    \/ AdvanceClock
    \/ AddIPCall({"10.0.0.1"})
    \/ AddScheduleCall({"10.0.0.1"})
    \/ UpdateScheduleCall
    \/ DeleteScheduleCall
    \/ PutOpenPorts({"10.0.0.1"}, {TRUE})
    \/ StoreScanResultCall({"10.0.0.1"})
    \/ DeleteIP({"10.0.0.1"}, {{}})

SpecRetry == Init /\ [][NextRetry]_vars

NextCascade ==
    \/ AddScheduleCall({"10.0.0.1"})
    \/ HandleSQSEvent({"10.0.0.1"}, {0}, MaxStoreDeliveries)
    \/ handleRequest
    \/ DeleteIP({"10.0.0.1"}, DeleteFailures)

SpecCascade == Init /\ [][NextCascade]_vars

NextAdHoc ==
    \/ AdvanceClock
    \/ addSchedule(IPs, {"hourly"})
    \/ startScan(IPs)
    \/ startBulkScan(IPs)
    \/ HandleImmediate

SpecAdHoc == Init /\ [][NextAdHoc]_vars

\* The port lists of a scan task, repeats included
ScanLists == UNION {[1..n -> Ports] : n \in 0..MaxScanLen}

\* A call of the port scanner with any port list and any concurrency, none
\* included: the ports are in the channel, the workers are idle
InitScan ==
    /\ InitTables
    /\ InitQueues
    /\ InitStore
    /\ \E portList \in ScanLists, concurrency \in -1..MaxConcurrency, retryCount \in -1..MaxRetryCount :
          /\ scanRequest = [PortsToScan |-> portList, Concurrency |-> concurrency,
                            RetryCount |-> retryCount]
          /\ portsChan = [i \in 1..Len(portList) |-> i]
          /\ attempts = [i \in 1..Len(portList) |-> 0]
    /\ probing = {}
    /\ resultsChan = <<>>
    /\ scanResult = <<>>
    /\ connected = {}
    /\ cancellation = <<>>

NextScanner ==
    \/ WorkerReceive
    \/ WorkerProbe
    \/ Cancel
    \/ ProbeCancelled
    \/ ScanPortsReturn

SpecScanner == InitScan /\ [][NextScanner]_vars

\* The workers and the caller of the scanner are goroutines that go on running
FairSpecScanner == SpecScanner /\ WF_vars(WorkerReceive \/ WorkerProbe \/ ProbeCancelled \/ ScanPortsReturn)

NextOpenPorts == PutOpenPorts(IPs, BOOLEAN)

SpecOpenPorts == Init /\ [][NextOpenPorts]_vars

NextConcurrent ==
    \/ ProcessorInvoked({"10.0.0.1"})
    \/ \E p \in 1..MaxProcessors : GetExistingPorts(p)
    \/ \E p \in 1..MaxProcessors : PutMergedPorts(p)

SpecConcurrent == Init /\ [][NextConcurrent]_vars

NextTick ==
    \/ addScheduleOf({"10.0.0.1"}, {"hourly"}, {"previous_open", "full_65k"})
    \/ AdvanceToNextRun
    \/ TickStart
    \/ DispatchDue

SpecTick == Init /\ [][NextTick]_vars

NextPipeline ==
    \/ ScheduleScan({"10.0.0.1"}, {"previous_open"})
    \/ WorkerHandleSQSEvent
    \/ MoveToDLQ
    \/ ProcessResultMessage(SUBSET {"StoreScanResult", "StoreOpenPorts", "StoreFinalScanSummary"})

SpecPipeline == Init /\ [][NextPipeline]_vars

NextListing ==
    \/ AddIPCall(ListedIPs)
    \/ getIPs

SpecListing == Init /\ [][NextListing]_vars

NextTicks ==
    \/ addSchedule({"10.0.0.1"}, {"hourly"})
    \/ AdvanceToNextRun
    \/ Tick
    \/ TickDispatch

SpecTicks == Init /\ [][NextTicks]_vars

\* The rule fires for ever and a tick that has listed schedules dispatches them
FairSpecTicks == SpecTicks /\ WF_vars(Tick) /\ WF_vars(TickDispatch)

\* ------------------------------------------------------------- open port set
\* OpenPortSet(ip): the ports stored for the IP, as a set
OpenPortSet(ip) == Range(GetOpenPorts(openPortsTbl, ip))

\* The positions of the processed batch results of an IP
DeliveriesOfIP(ip) == {i \in DOMAIN deliveries : deliveries[i].IPAddress = ip}

\* The positions of the processed batch results of a scan
DeliveriesOfScan(scanID) == {i \in DOMAIN deliveries : deliveries[i].ScanID = scanID}

\* The scans a batch result may belong to
ScanIDs == {ScanID(ip, n) : ip \in IPs, n \in 0..(NumScans - 1)}

FinalSummaries(scanID) ==
    {k \in DOMAIN resultsTbl :
        IsFinalSummary(resultsTbl[k]) /\ resultsTbl[k].ScanId = scanID}

\* C3: whatever batch results were delivered, and however often, the result
\* table holds at most one final summary for each scan.
C3_AtMostOneFinalSummary ==
    \A scanID \in ScanIDs : Cardinality(FinalSummaries(scanID)) <= 1

\* C4: a scan whose batches were all delivered has exactly one final summary,
\* and a final summary exists only for a scan whose last batch was processed.
C4_ExactlyOneFinalSummary ==
    \A scanID \in ScanIDs :
        /\ (\A b \in 0..(NumBatches - 1) :
               \E i \in DeliveriesOfScan(scanID) : deliveries[i].BatchID = b)
           => Cardinality(FinalSummaries(scanID)) = 1
        /\ FinalSummaries(scanID) # {}
           => \E i \in DeliveriesOfScan(scanID) :
                 deliveries[i].BatchID = deliveries[i].TotalBatches - 1

\* C5: the open ports of a final summary are among the ports that the batch
\* results of its own scan reported open.
C5_FinalSummaryPortsOfOwnScan ==
    \A k \in DOMAIN resultsTbl :
        IsFinalSummary(resultsTbl[k])
        => Range(resultsTbl[k].OpenPorts) \subseteq
              UNION {Range(deliveries[i].OpenPorts) : i \in DeliveriesOfScan(resultsTbl[k].ScanId)}

\* C6: right after DeleteIP of an IP, no table holds an item of that IP: not
\* the IP table, the schedule table, the open port table or the result table.
C6_DeleteIPRemovesEverything ==
    lastDeleted # ""
    => /\ \A ip \in DOMAIN ipsTbl : ip # lastDeleted
       /\ \A id \in DOMAIN schedulesTbl : schedulesTbl[id].IPAddress # lastDeleted
       /\ \A ip \in DOMAIN openPortsTbl : openPortsTbl[ip].IPAddress # lastDeleted
       /\ \A k \in DOMAIN resultsTbl : resultsTbl[k].IPAddress # lastDeleted

\* DeleteIP has just removed an IP that had a last batch with open ports
\* processed and a schedule, and the other IP still has its schedule
C6_Witness ==
    /\ lastDeleted # ""
    /\ \E i \in DOMAIN deliveries :
          /\ deliveries[i].IPAddress = lastDeleted
          /\ deliveries[i].BatchID = deliveries[i].TotalBatches - 1
          /\ Len(deliveries[i].OpenPorts) > 0
    /\ Cardinality(usedIDs) = 2
    /\ Cardinality(DOMAIN schedulesTbl) = 1

\* The interval of a cadence, in seconds
IntervalOfCadence(cadence) ==
    CASE cadence = "hourly" -> 3600
      [] cadence = "12hour" -> 43200
      [] cadence = "daily" -> 86400
      [] cadence = "weekly" -> 604800
      [] cadence = "monthly" -> 2592000

\* C7: for every cadence that has schedules and every limit, each schedule that list-due returns
\* has that cadence, is enabled and has its next run at or before now, and no
\* more than the limit are returned; what a tick holds for dispatch is what
\* list-due returned.
C7_PendingScansAreDue ==
    /\ \A scheduleType \in {getString(schedulesTbl[id], "ScheduleType") : id \in DOMAIN schedulesTbl},
          maxIPs \in 1..MaxSchedules :
          \A evaluated \in EvaluatedSets(schedulesTbl, scheduleType, maxIPs) :
              LET scans == GetPendingScans(schedulesTbl, evaluated, now)
              IN /\ Cardinality(scans) <= maxIPs
                 /\ \A scan \in scans :
                       /\ schedulesTbl[scan.ScheduleID].ScheduleType = scheduleType
                       /\ schedulesTbl[scan.ScheduleID].Enabled = TRUE
                       /\ ParseRFC3339(schedulesTbl[scan.ScheduleID].NextRun) <= now
    /\ \A scan \in pending :
          /\ scan.ScheduleType = lastTick.scheduleType
          /\ ParseRFC3339(scan.NextRun) <= lastTick.at

\* A tick has listed a due schedule while a disabled schedule of the same
\* cadence, also past its next run, was left out
C7_Witness ==
    /\ lastTick.at = now
    /\ \E scan \in pending, id \in DOMAIN schedulesTbl :
          /\ id # scan.ScheduleID
          /\ getString(schedulesTbl[id], "ScheduleType") = lastTick.scheduleType
          /\ getBool(schedulesTbl[id], "Enabled") = FALSE
          /\ HasAttr(schedulesTbl[id], "NextRun")
          /\ ParseRFC3339(schedulesTbl[id].NextRun) <= now

\* C8: the step that dispatches a schedule sets its last run to the time of the
\* dispatch and its next run to that time plus the interval of the cadence,
\* which is later than the last run.
C8_DispatchSetsNextRun ==
    [][\A scan \in pending \ pending' :
          LET schedule == schedulesTbl'[scan.ScheduleID]
          IN /\ schedule.LastRun = <<now>>
             /\ ParseRFC3339(schedule.NextRun) = now + IntervalOfCadence(scan.ScheduleType)
             /\ ParseRFC3339(schedule.NextRun) > ParseRFC3339(schedule.LastRun)]_vars

\* A schedule was dispatched later than its next run and later than the tick
\* listed it
C8_Witness ==
    \E id \in lastTick.dispatched :
        /\ id \in DOMAIN schedulesTbl
        /\ now > lastTick.at
        /\ schedulesTbl[id].LastRun = <<now>>
        /\ schedulesTbl[id].CreatedAt = <<0>>
        /\ now > IntervalOfCadence(schedulesTbl[id].ScheduleType)

\* C9: at a tick one interval after the previous tick of the same cadence, a
\* schedule the previous tick dispatched, still enabled and alone in its
\* cadence, is listed again.
C9_DueAgainAtNextTick ==
    [][(/\ pending = {}
        /\ lastTick.scheduleType \in ScheduleTypes
        /\ lastTick'.at = now
        /\ lastTick'.scheduleType = lastTick.scheduleType
        /\ now = lastTick.at + IntervalOfCadence(lastTick.scheduleType))
       => \A id \in lastTick.dispatched :
             (/\ ScheduleTypeIndex(schedulesTbl, lastTick.scheduleType) = {id}
              /\ getBool(schedulesTbl[id], "Enabled"))
             => \E scan \in pending' : scan.ScheduleID = id]_vars

\* C10: a step that takes a schedule from disabled to enabled sets its next
\* run to now plus the interval of its cadence.
C10_EnableSetsNextRun ==
    [][\A id \in DOMAIN schedulesTbl \cap DOMAIN schedulesTbl' :
          (/\ getBool(schedulesTbl[id], "Enabled") = FALSE
           /\ getBool(schedulesTbl'[id], "Enabled") = TRUE
           /\ getString(schedulesTbl'[id], "ScheduleType") \in ScheduleTypes)
          => /\ HasAttr(schedulesTbl'[id], "NextRun")
             /\ ParseRFC3339(schedulesTbl'[id].NextRun)
                   = now + IntervalOfCadence(schedulesTbl'[id].ScheduleType)]_vars

\* C11: whatever was created, updated, enabled, disabled, dispatched or deleted,
\* every item of the schedule table has a next run.
C11_NextRunAlwaysSet ==
    \A id \in DOMAIN schedulesTbl :
        HasAttr(schedulesTbl[id], "NextRun") /\ schedulesTbl[id].NextRun # <<>>

\* ------------------------------------------------------------- batches
CeilDiv(n, d) == (n + d - 1) \div d

\* C12: the batches of a scan are slices of the port list in input order that
\* make up the list again; none is empty, all but the last have the batch size,
\* the i-th carries batch id i (from 0) and each carries the number of batches,
\* the length of the list divided by the batch size, rounded up.
C12_BatchesPartitionPorts ==
    calls = 1 =>
        LET size == IF batchSize <= 0 THEN DefaultBatchSize ELSE batchSize
            total == Len(requests)
        IN /\ Concat([i \in 1..total |-> requests[i].PortsToScan]) = ports
           /\ total = CeilDiv(Len(ports), size)
           /\ \A i \in 1..total :
                 /\ requests[i].PortsToScan # <<>>
                 /\ i < total => Len(requests[i].PortsToScan) = size
                 /\ requests[i].BatchID = i - 1
                 /\ requests[i].TotalBatches = total

\* A list of five ports was cut in batches of two: two full ones and a short one
C12_Witness ==
    /\ calls = 1
    /\ Len(ports) = 5
    /\ batchSize = 2
    /\ Len(requests) = 3
    /\ Len(requests[3].PortsToScan) = 1

\* The ports lo..hi in ascending order
PortRange(lo, hi) == [i \in 1..(hi - lo + 1) |-> lo + i - 1]

\* C13: a full range scan hands seven tasks to the task queue, numbered 0..6 of
\* 7, of the ports 1..10000, 10001..20000, ..., 60001..65535.
C13_FullRangeSevenTasks ==
    (calls > 0 /\ requests[1].ScanProfile = "full_range") =>
        /\ Len(requests) = 7
        /\ \A i \in 1..Len(requests) :
              /\ requests[i].BatchID = i - 1
              /\ requests[i].TotalBatches = 7
              /\ requests[i].PortsToScan =
                    PortRange(10000 * (i - 1) + 1, IF i = 7 THEN MaxPort ELSE 10000 * i)

\* ------------------------------------------------------------- previous_open
\* The ports a previous_open scan of the IP has to cover
PreviousOpenPorts(ip) == IF OpenPortSet(ip) # {} THEN OpenPortSet(ip) ELSE {22, 80, 443, 3389}

TasksOfCall(call) == {i \in DOMAIN tasksQueue : tasksQueue[i].id[1] = call}

\* C15: the tasks that one scan has put in the task queue carry one scan id and
\* one number of batches, and their batch ids differ from each other and lie
\* in 0..TotalBatches-1.
C15_TasksOfOneScan ==
    \A call \in 1..calls :
        \A i, j \in TasksOfCall(call) :
            /\ tasksQueue[i].body.ScanID = tasksQueue[j].body.ScanID
            /\ tasksQueue[i].body.TotalBatches = tasksQueue[j].body.TotalBatches
            /\ i # j => tasksQueue[i].body.BatchID # tasksQueue[j].body.BatchID
            /\ tasksQueue[i].body.BatchID \in 0..(tasksQueue[i].body.TotalBatches - 1)

\* Two scans have each put several tasks in the queue, one of them after a
\* failed send
C15_Witness ==
    /\ calls = 2
    /\ Cardinality(TasksOfCall(1)) = Len(requests)
    /\ Cardinality(TasksOfCall(2)) = Len(requests) - 1
    /\ Len(requests) > 2

\* ------------------------------------------------------------- scanner errors
\* C16: a task whose scan ended in an error or a panic is not acknowledged: it
\* is still in the task queue, to be delivered again, or in the dead-letter
\* queue.
C16_FailedTaskIsKept ==
    \A id \in scanErrors :
        \/ \E i \in DOMAIN tasksQueue : tasksQueue[i].id = id
        \/ \E i \in DOMAIN tasksDLQ : tasksDLQ[i].id = id

\* ------------------------------------------------------------- enricher requests
\* The final summaries in the result table
FinalSummaryKeys == {k \in DOMAIN resultsTbl : IsFinalSummary(resultsTbl[k])}

RecordsOfScan(scanID) ==
    {k \in ResultKeysOfIP(resultsTbl, queried[1]) : resultsTbl[k].ScanId = scanID}

\* C18: the list returned for an IP has at most one entry for a scan id, and
\* the entry of a scan that has a final summary on record is a final summary,
\* never one of its batch records.
C18_OneEntryPerScanFinalFirst ==
    queried # <<>> =>
        \A i \in DOMAIN finalResults :
            /\ \A j \in DOMAIN finalResults :
                  finalResults[i].ScanID = finalResults[j].ScanID => i = j
            /\ (\E k \in RecordsOfScan(finalResults[i].ScanID) : IsFinalSummary(resultsTbl[k]))
               => /\ finalResults[i].IsFinalSummary
                  /\ \E k \in RecordsOfScan(finalResults[i].ScanID) :
                        /\ IsFinalSummary(resultsTbl[k])
                        /\ finalResults[i] = UnmarshalScanResult(resultsTbl[k])

\* The list holds the final summary of a scan that also has a batch record, and
\* an entry of another scan
C18_Witness ==
    /\ queried # <<>>
    /\ Len(finalResults) = 2
    /\ finalResults[1].IsFinalSummary
    /\ \E k \in RecordsOfScan(finalResults[1].ScanID) : ~IsFinalSummary(resultsTbl[k])

RECURSIVE PortsScannedOf(_)
\* The ports scanned according to the records, added up
PortsScannedOf(keys) ==
    IF keys = {} THEN 0
    ELSE LET k == CHOOSE key \in keys : TRUE
         IN resultsTbl[k].PortsScanned + PortsScannedOf(keys \ {k})

\* The scan ids on record for the IP that was asked for
ScanIdsOnRecord == {resultsTbl[k].ScanId : k \in ResultKeysOfIP(resultsTbl, queried[1])}

\* The number of entries asked for
LimitUsed == IF queried[2] <= 0 THEN 10 ELSE queried[2]

\* C19: a scan without final summary is returned as one entry: its open ports
\* are those of all its batch records, each once and ascending, its ports
\* scanned are the sum over the records, and everything else is taken from the
\* record with the latest timestamp.
C19_ConsolidatedEntry ==
    queried # <<>> =>
        /\ \A i \in DOMAIN finalResults :
              LET keys == RecordsOfScan(finalResults[i].ScanID)
                  latest == CHOOSE k \in keys : \A other \in keys : StrLeq(other[2], k[2])
                  open == finalResults[i].OpenPorts
              IN (\A k \in keys : ~IsFinalSummary(resultsTbl[k])) =>
                    /\ Range(open) = UNION {Range(resultsTbl[k].OpenPorts) : k \in keys}
                    /\ \A m, n \in DOMAIN open : m < n => open[m] < open[n]
                    /\ finalResults[i].PortsScanned = PortsScannedOf(keys)
                    /\ finalResults[i].IPAddress = resultsTbl[latest].IPAddress
                    /\ finalResults[i].ScanTimestamp = resultsTbl[latest].ScanTimestamp
                    /\ finalResults[i].ExpirationTime = resultsTbl[latest].ExpirationTime
                    /\ ~finalResults[i].IsFinalSummary
        /\ Cardinality(ScanIdsOnRecord) <= LimitUsed =>
              \A scanID \in ScanIdsOnRecord :
                  \E i \in DOMAIN finalResults : finalResults[i].ScanID = scanID

\* An entry was made of two batch records, one with port 22 open and a later
\* one with port 80 open
C19_Witness ==
    /\ queried # <<>>
    /\ \E i \in DOMAIN finalResults :
          /\ ~finalResults[i].IsFinalSummary
          /\ finalResults[i].OpenPorts = <<22, 80>>
          /\ finalResults[i].PortsScanned = 2 * Cardinality(Ports)
          /\ \E k1, k2 \in RecordsOfScan(finalResults[i].ScanID) :
                /\ resultsTbl[k1].OpenPorts = <<22>>
                /\ resultsTbl[k2].OpenPorts = <<80>>
                /\ k1[2] = <<0>> /\ k2[2] = <<1>>

\* The timestamp under which a scan is listed: that of its newest final
\* summary, or of its newest record if it has no final summary
ListedTimestamp(scanID) ==
    LET keys == RecordsOfScan(scanID)
        finals == {k \in keys : IsFinalSummary(resultsTbl[k])}
        from == IF finals # {} THEN finals ELSE keys
    IN (CHOOSE k \in from : \A other \in from : StrLeq(other[2], k[2]))[2]

\* C20: the list is ordered by ScanTimestamp, the newest first; it has as many
\* entries as the limit allows (10 for a limit of 0 or less) or as there are
\* scan ids on record for the IP, whichever is less; and no scan left out is
\* newer than a scan in the list.
C20_NewestScansUpToLimit ==
    queried # <<>> =>
        /\ Len(finalResults) = IF Cardinality(ScanIdsOnRecord) < LimitUsed
                               THEN Cardinality(ScanIdsOnRecord) ELSE LimitUsed
        /\ \A i, j \in DOMAIN finalResults :
              i < j => /\ StrLeq(finalResults[j].ScanTimestamp, finalResults[i].ScanTimestamp)
                       /\ finalResults[j].ScanTimestamp # finalResults[i].ScanTimestamp
        /\ \A i \in DOMAIN finalResults :
              /\ finalResults[i].ScanID \in ScanIdsOnRecord
              /\ finalResults[i].ScanTimestamp = ListedTimestamp(finalResults[i].ScanID)
        /\ \A scanID \in ScanIdsOnRecord \ {finalResults[i].ScanID : i \in DOMAIN finalResults} :
              /\ finalResults # <<>>
              /\ StrLeq(ListedTimestamp(scanID), finalResults[Len(finalResults)].ScanTimestamp)

\* Eleven scans are on record and no limit was given: the ten newest are listed
C20_Witness ==
    /\ queried # <<>>
    /\ queried[2] <= 0
    /\ Cardinality(ScanIdsOnRecord) = 11
    /\ Len(finalResults) = 10
    /\ \E i \in DOMAIN finalResults : finalResults[i].IsFinalSummary
    /\ \E i \in DOMAIN finalResults : ~finalResults[i].IsFinalSummary

\* ------------------------------------------------------------- put-union
\* The ports a copy of the table holds for the IP, as a list and as a set
ReplicaList(path) == GetOpenPorts(replicas[path].tbl, putArgs.ip)
ReplicaSet(path) == Range(ReplicaList(path))

\* All the calls of the three copies were made
AllPutsDone == \A path \in DOMAIN replicas : replicas[path].done = Len(PutCalls(path))

TimeAttributes == {"CreatedAt", "UpdatedAt", "LastRun", "NextRun", "LastUpdated", "LastScanned",
                   "ScanTimestamp", "ExpirationTime"}

\* An item without its times, its list of open ports taken as a set
WithoutTimes(item) ==
    [a \in DOMAIN item \ TimeAttributes |->
        IF a = "OpenPorts" THEN Range(item[a]) ELSE item[a]]

\* The records of a table, times aside
Records(tbl) == {WithoutTimes(tbl[k]) : k \in DOMAIN tbl}

\* Two states of a table hold the same records, times aside
SameRecords(tbl1, tbl2) ==
    /\ Cardinality(DOMAIN tbl1) = Cardinality(DOMAIN tbl2)
    /\ Records(tbl1) = Records(tbl2)

\* A call of the store client that repeats the call before it
IsRetry == ops' = ops + 1 /\ lastCall' = lastCall

\* C22: a store call made a second time in a row with the same arguments
\* leaves every table with the records the first call left, times aside.
C22_RetryLeavesSameRecords ==
    [][IsRetry =>
          /\ SameRecords(ipsTbl, ipsTbl')
          /\ SameRecords(schedulesTbl, schedulesTbl')
          /\ SameRecords(openPortsTbl, openPortsTbl')
          /\ SameRecords(resultsTbl, resultsTbl')]_vars

\* ------------------------------------------------------------- cascade
\* A call of DeleteIP
IsDeleteIP == ops' = ops + 1 /\ lastCall' # <<>> /\ lastCall'[1] = "DeleteIP"

\* C23: DeleteIP returns success exactly when the delete of the IP item
\* succeeded; it then attempts the schedules, the open port item and the scan
\* results whichever of them fails, and nothing is left of the IP in a category
\* whose delete did not fail.
C23_CascadeIsBestEffort ==
    [][IsDeleteIP =>
          /\ deleteOutcome'.returned = "nil" <=> "ip" \notin deleteOutcome'.failed
          /\ "ip" \notin deleteOutcome'.failed =>
                /\ deleteOutcome'.ip \notin DOMAIN ipsTbl'
                /\ deleteOutcome'.attempted = Categories
                /\ "schedules" \notin deleteOutcome'.failed =>
                      IPAddressIndex(schedulesTbl', deleteOutcome'.ip) = {}
                /\ "openPorts" \notin deleteOutcome'.failed =>
                      deleteOutcome'.ip \notin DOMAIN openPortsTbl'
                /\ "results" \notin deleteOutcome'.failed =>
                      ResultKeysOfIP(resultsTbl', deleteOutcome'.ip) = {}]_vars

\* DeleteIP returned success although the delete of the schedules failed: the
\* schedule of the IP is still there, its open ports and scan results, which a
\* processed batch result had left, are gone
C23_Witness ==
    /\ deleteOutcome # <<>>
    /\ deleteOutcome.returned = "nil"
    /\ deleteOutcome.failed = {"schedules"}
    /\ IPAddressIndex(schedulesTbl, deleteOutcome.ip) # {}
    /\ deleteOutcome.ip \notin DOMAIN openPortsTbl
    /\ ResultKeysOfIP(resultsTbl, deleteOutcome.ip) = {}
    /\ \E i \in DOMAIN deliveries :
          deliveries[i].IPAddress = deleteOutcome.ip /\ Len(deliveries[i].OpenPorts) > 0

\* C24: after a DeleteIP that returned success, the enrichment table holds no
\* record of that IP.
C24_DeleteIPRemovesEnrichment ==
    [][(IsDeleteIP /\ deleteOutcome'.returned = "nil") =>
          \A k \in DOMAIN enrichmentTbl' : enrichmentTbl'[k].IPAddress # deleteOutcome'.ip]_vars

\* ------------------------------------------------------------- ad-hoc scans
\* C25: a step that takes an ad-hoc scan request, single or bulk, or that
\* schedules the scans of one, leaves the schedule table as it is: no schedule's
\* last run, next run, enabled flag or update time changes.
C25_AdHocLeavesSchedules ==
    [][(schedulerEvents' # schedulerEvents \/ immediateHandled' # immediateHandled)
       => schedulesTbl' = schedulesTbl]_vars

\* A single and a bulk ad-hoc scan of an IP that has an enabled schedule were
\* put in the task queue, a second after the schedule was created, and the
\* schedule never ran
C25_Witness ==
    /\ immediateHandled = 2
    /\ HasAttr(schedulerEvents[1], "IP")
    /\ HasAttr(schedulerEvents[2], "IPs")
    /\ Len(schedulerEvents[2].IPs) = 2
    /\ Len(tasksQueue) = 3
    /\ now = 1
    /\ \E id \in DOMAIN schedulesTbl :
          /\ schedulesTbl[id].IPAddress = schedulerEvents[1].IP
          /\ schedulesTbl[id].Enabled
          /\ schedulesTbl[id].LastRun = <<>>
          /\ schedulesTbl[id].UpdatedAt = <<0>>

\* ------------------------------------------------------------- port scanner
\* C26: at no time of a scan are more probes under way than the concurrency
\* asked for, or than 50 if the concurrency asked for is 0 or less.
C26_ProbesWithinConcurrency ==
    scanRequest # <<>> =>
        Cardinality(probing) <= IF scanRequest.Concurrency <= 0 THEN 50
                                ELSE scanRequest.Concurrency

\* Two probes are under way for a concurrency of 2 while a third port waits in
\* the channel
C26_Witness ==
    /\ scanRequest # <<>>
    /\ scanRequest.Concurrency = 2
    /\ Cardinality(probing) = 2
    /\ Len(portsChan) = 1

\* C27: the open ports a scan returns are strictly ascending by port number,
\* so each is there once, whatever the order the probes ended in and even if
\* the port list names a port twice.
C27_OpenPortsStrictlyAscending ==
    scanResult # <<>> =>
        \A i, j \in DOMAIN scanResult[1].OpenPorts :
            i < j => scanResult[1].OpenPorts[i] < scanResult[1].OpenPorts[j]

\* ------------------------------------------------------------- batch order
\* Every batch of the scan was processed
AllBatchesProcessed(scanID) ==
    \A b \in 0..(NumBatches - 1) :
        \E i \in DeliveriesOfScan(scanID) : deliveries[i].BatchID = b

\* C28: once every batch of a scan was processed, in whatever order, the scan
\* has a final summary that holds every port a batch of the scan reported open.
C28_FinalSummaryHoldsAllBatches ==
    \A scanID \in ScanIDs :
        AllBatchesProcessed(scanID) =>
            \E k \in FinalSummaries(scanID) :
                UNION {Range(deliveries[i].OpenPorts) : i \in DeliveriesOfScan(scanID)}
                    \subseteq Range(resultsTbl[k].OpenPorts)

\* ------------------------------------------------------------- union only
\* A call of StoreOpenPorts
IsStoreOpenPorts == ops' = ops + 1 /\ lastCall' # <<>> /\ lastCall'[1] = "StoreOpenPorts"

\* C29: a call of StoreOpenPorts leaves every port that was stored for an IP
\* before it, whether its read of the stored list succeeds or fails.
C29_StoreOpenPortsOnlyAdds ==
    [][IsStoreOpenPorts =>
          \A ip \in IPs :
              Range(GetOpenPorts(openPortsTbl, ip)) \subseteq Range(GetOpenPorts(openPortsTbl', ip))]_vars

\* ------------------------------------------------------------- concurrent merges
\* The ports the invocations that have written were to add for the IP
PortsWritten(ip) ==
    UNION {Range(procs[q].openPorts) : q \in {w \in Written : procs[w].IPAddress = ip}}

\* The stored open port set of the IP lacks a port an invocation wrote
LostUpdate(ip) == ~(PortsWritten(ip) \subseteq Range(GetOpenPorts(openPortsTbl, ip)))

\* C30: StoreOpenPorts reads and writes in two steps, so the stored set lacks a
\* written port only after a stale write: an invocation that wrote the list it
\* had read before another invocation's write; invocations that run one after
\* the other lose nothing.
C30_LostUpdateOnlyByStaleWrite ==
    \A ip \in IPs : LostUpdate(ip) => \E p \in Written : procs[p].stale

\* Two invocations for one IP have both written and the stored set lacks the
\* ports of one of them
C30_Witness ==
    /\ Len(procs) = 2
    /\ Written = {1, 2}
    /\ procs[1].IPAddress = procs[2].IPAddress
    /\ \E p \in Written :
          Range(procs[p].openPorts) \cap Range(GetOpenPorts(openPortsTbl, procs[p].IPAddress)) = {}

\* ------------------------------------------------------------- dispatch of a due schedule
\* This step is the dispatch of a due schedule
IsDispatch == calls' = calls + 1 /\ lastDispatch' # <<>> /\ lastDispatch'.call = calls'

\* The NextRun of a schedule in a schedule table
NextRunOf(tbl, id) == IF id \in DOMAIN tbl THEN getTimeString(tbl[id], "NextRun") ELSE <<>>

\* C31: a dispatch moves the NextRun of its schedule only if the task of every
\* batch was enqueued; after a failed send the NextRun stays as it was.
C31_AdvancedOnlyAfterEnqueue ==
    [][IsDispatch =>
          (lastDispatch'.failed # {} =>
              NextRunOf(schedulesTbl', lastDispatch'.ScheduleID)
                  = NextRunOf(schedulesTbl, lastDispatch'.ScheduleID))]_vars

\* The tasks of the last dispatch that are in the task queue
TasksOfLastDispatch == {i \in DOMAIN tasksQueue : tasksQueue[i].id[1] = lastDispatch.call}

\* C32: when the send of a batch's task failed, the tasks of the other batches
\* are in the queue once each and the failed one is not, each carries the
\* number of batches of the whole scan, ScheduleScan returned no error and the
\* schedule's NextRun is one interval after the dispatch.
C32_FailedBatchIsSkipped ==
    (lastDispatch # <<>> /\ lastDispatch.failed # {}) =>
        /\ \A b \in 0..(lastDispatch.TotalBatches - 1) :
              Cardinality({i \in TasksOfLastDispatch : tasksQueue[i].body.BatchID = b})
                  = IF b + 1 \in lastDispatch.failed THEN 0 ELSE 1
        /\ \A i \in TasksOfLastDispatch : tasksQueue[i].body.TotalBatches = lastDispatch.TotalBatches
        /\ lastDispatch.returned = "nil"
        /\ NextRunOf(schedulesTbl, lastDispatch.ScheduleID)
               = FormatRFC3339(lastDispatch.at + getScheduleInterval(lastDispatch.ScheduleType))

\* A scan of several batches was dispatched, the send of its first batch failed
\* and the tasks of later batches are in the queue
C32_Witness ==
    /\ lastDispatch # <<>>
    /\ lastDispatch.TotalBatches > 1
    /\ lastDispatch.failed = {1}
    /\ TasksOfLastDispatch # {}

\* ------------------------------------------------------------- transient failures
\* This step is an invocation of the worker or of the processor
IsHandled == lastHandled' # lastHandled

\* C33: an invocation of the processor in which a store call failed, or of the
\* worker in which the send of the result failed, does not return nil: the
\* message is not deleted from its queue.
C33_FailedMessageIsRedelivered ==
    [][(IsHandled /\ lastHandled'.failed \cap
            {"StoreScanResult", "StoreOpenPorts", "StoreFinalScanSummary", "SendMessage"} # {}) =>
          /\ lastHandled'.returned # "nil"
          /\ Len(tasksQueue') = Len(tasksQueue)
          /\ Len(resultsQueue') = Len(resultsQueue)]_vars

\* ------------------------------------------------------------- per-batch records
\* The per-batch records of an IP in the result table
BatchRecordsOfIP(ip) == {k \in DOMAIN resultsTbl : k[1] = ip /\ ~IsFinalSummary(resultsTbl[k])}

\* C34: the result table holds one per-batch record for each batch result of
\* an IP that was processed, redeliveries included, whenever they were processed.
C34_OneRecordPerDelivery ==
    \A ip \in IPs : Cardinality(BatchRecordsOfIP(ip)) = Cardinality(DeliveriesOfIP(ip))

\* ------------------------------------------------------------- connect attempts
\* The ports of the list whose connect succeeded, each as often as it did
ConnectedPorts == [i \in connected |-> scanRequest.PortsToScan[i]]

\* The returned list holds the ports whose connect succeeded, and no other
ReturnsConnectedPorts ==
    scanResult # <<>> =>
        /\ Range(scanResult[1].OpenPorts) = {scanRequest.PortsToScan[i] : i \in connected}
        /\ Len(scanResult[1].OpenPorts) = Cardinality(connected)

\* C35: no port of a scan gets more than 1 + retryCount connect attempts, none
\* after a connect that succeeded, and the returned open ports are the ports
\* with a connect that succeeded.
C35_AttemptsAndOpenPorts ==
    /\ [](\A i \in DOMAIN attempts :
              attempts[i] <= 1 + (IF scanRequest.RetryCount < 0 THEN 0 ELSE scanRequest.RetryCount))
    /\ [][\A i \in connected : attempts'[i] = attempts[i]]_vars
    /\ []ReturnsConnectedPorts

\* A scan has returned in which a port was found open on a retry and another
\* was given up after the last retry
C35_Witness ==
    /\ scanResult # <<>>
    /\ scanRequest.RetryCount = 1
    /\ \E i \in connected : attempts[i] = 2
    /\ \E j \in DOMAIN attempts : j \notin connected /\ attempts[j] = 2
    /\ Len(scanResult[1].OpenPorts) = 1

IsDue(id) == id \in DOMAIN schedulesTbl /\ DueFilter(schedulesTbl[id], now)

\* C37: with ticks that go on for ever and no failure, a schedule that is
\* enabled and due is dispatched by some tick, however many schedules of its
\* cadence there are.
C37_DueScheduleIsDispatched ==
    \A id \in ScheduleIDs : IsDue(id) ~> (id \in lastTick.dispatched)

\* ------------------------------------------------------------- scan ids
\* C38: the tasks of two dispatches, each a scan of its own, never carry the
\* same scan id, also when both dispatches are for one IP in one second.
C38_ScanIDsAreDistinct ==
    \A i, j \in DOMAIN tasksQueue :
        tasksQueue[i].id[1] # tasksQueue[j].id[1] =>
            tasksQueue[i].body.ScanID # tasksQueue[j].body.ScanID

\* ------------------------------------------------------------- results after a delete
\* This step is the processing of a batch result of the IP
IsProcessingOf(ip) ==
    /\ Len(deliveries') = Len(deliveries) + 1
    /\ deliveries'[Len(deliveries')].IPAddress = ip

\* C39: when DeleteIP of an IP has returned and a batch result of that IP is
\* processed next, the IP table, the open port table and the result table
\* still hold no item of the IP.
C39_NoRecordAfterDeleteIP ==
    [][\A ip \in IPs :
          (lastDeleted = ip /\ IsProcessingOf(ip)) =>
              /\ ip \notin DOMAIN ipsTbl'
              /\ ip \notin DOMAIN openPortsTbl'
              /\ \A k \in DOMAIN resultsTbl' : resultsTbl'[k].IPAddress # ip]_vars

\* ------------------------------------------------------------- listing of the IPs
\* C40: GetIPs returns at most limit IPs, none of the first offset IPs of the
\* listing, and no IP when the offset is not below the number of IPs.
C40_GetIPsPage ==
    listed # <<>> =>
        /\ Len(listed.ips) <= listed.limit
        /\ \A i \in 1..Len(listed.listing) :
              i <= listed.offset => listed.listing[i] \notin Range(listed.ips)
        /\ listed.offset >= Len(listed.listing) => listed.ips = <<>>
====
